---------------------------- MODULE Spec2Model ----------------------------
(***************************************************************************)
(* Model of swiftui-cause-effect-cli: the graph store (package graph),     *)
(* the issue detector (package issues), the ingestion of exported files    *)
(* (package analyze), the report summary (package aioutput) and the        *)
(* analyze and summarize commands (cmd/swiftuice).                         *)
(*                                                                         *)
(* Strings of the program are TLA+ strings; Len, SubSeq and \o act on      *)
(* them character by character.                                            *)
(***************************************************************************)
EXTENDS Integers, Sequences, FiniteSets, TLC

VARIABLES
    Nodes,       \* Graph.Nodes: map from node id to Node
    Edges,       \* Graph.Edges: slice of Edge
    thresholds,  \* Detector.thresholds
    detected,    \* Detect's slice `issues` as it was before sort.Slice
    issues,      \* the slice Detect returned
    pc,          \* "build" while the graph is ingested, "done" after Detect;
                 \* the position of a command while one runs
    trace,       \* history: the graph-store calls made so far, in order
    input,       \* a command's arguments and the files they name
    walkPos,     \* parseDirectory: index of the entry WalkDir visits next
    stats,       \* summaryStats: FilesParsed and Hints
    err,         \* the error the ingestion returned, "nil" when none
    correlator,  \* Generator.correlator
    summary,     \* the Summary calculateSummary returned, NoSummary before
    output,      \* the artefacts the command has written
    exitCode     \* the command's exit code, -1 while it runs

vars == <<Nodes, Edges, thresholds, detected, issues, pc, trace,
          input, walkPos, stats, err, correlator, summary, output, exitCode>>

\* The state of the commands, which the graph store and the detector on
\* their own leave alone.
cliVars == <<input, walkPos, stats, err, correlator, summary, output, exitCode>>

\* No Summary yet: the zero value of the struct, with no status.
NoSummary ==
    [TotalCauses |-> 0, TotalStateChanges |-> 0, TotalViewUpdates |-> 0,
     TotalEdges |-> 0, IssuesFound |-> 0, CriticalIssues |-> 0, HighIssues |-> 0,
     PerformanceScore |-> 0, HealthStatus |-> ""]

NoCommand ==
    /\ input = "none"
    /\ walkPos = 0
    /\ stats = [FilesParsed |-> 0, Hints |-> <<>>]
    /\ err = "nil"
    /\ correlator = [isNil |-> TRUE, swiftFiles |-> 0]
    /\ summary = NoSummary
    /\ output = {}
    /\ exitCode = -1

--------------------------------------------------------------------------
(* Bounds of the model.                                                    *)

MaxCalls == 4
MaxEdges == 6

--------------------------------------------------------------------------
(* package graph                                                           *)

NodeCause == "cause"
NodeState == "state"
NodeView == "view"
NodeOther == "other"

Node(id, label, type, count) ==
    [ID |-> id, Label |-> label, Type |-> type, Count |-> count]

Edge(from, to, label) == [From |-> from, To |-> to, Label |-> label]

\* graph.New
New == [Nodes |-> <<>>, Edges |-> <<>>]

\* A merge that overwrites the count instead of raising it.
MergeNodeOverwriteCount(existing, n) ==
    [ID |-> existing.ID,
     Label |-> IF existing.Label = "" THEN n.Label ELSE existing.Label,
     Type |-> IF existing.Type = NodeOther THEN n.Type ELSE existing.Type,
     Count |-> n.Count]

\* A merge in which the incoming label and kind win whenever they are set.
MergeNodeLastWins(existing, n) ==
    [ID |-> existing.ID,
     Label |-> IF n.Label # "" THEN n.Label ELSE existing.Label,
     Type |-> IF n.Type # NodeOther THEN n.Type ELSE existing.Type,
     Count |-> IF n.Count > existing.Count THEN n.Count ELSE existing.Count]

\* The body of UpsertNode for an id the map already holds.
MergeNode(existing, n) ==
    [ID |-> existing.ID,
     Label |-> IF existing.Label = "" THEN n.Label ELSE existing.Label,
     Type |-> IF existing.Type = NodeOther THEN n.Type ELSE existing.Type,
     Count |-> IF n.Count > existing.Count THEN n.Count ELSE existing.Count]

\* Graph.UpsertNode, as a function of the node map.
UpsertNode(nodes, n) ==
    IF n.ID \in DOMAIN nodes
    THEN [nodes EXCEPT ![n.ID] = MergeNode(@, n)]
    ELSE [id \in DOMAIN nodes \cup {n.ID} |->
             IF id = n.ID THEN n ELSE nodes[id]]

\* An AddEdge that drops an edge the slice already holds.
AddEdgeDedup(edges, e) ==
    IF \E i \in 1..Len(edges) : edges[i] = e THEN edges ELSE Append(edges, e)

\* Graph.AddEdge, as a function of the edge slice.
AddEdge(edges, e) == Append(edges, e)

--------------------------------------------------------------------------
(* Strings: strings.ToLower, strings.Contains, strconv (%d).               *)

UpperCase == "ABCDEFGHIJKLMNOPQRSTUVWXYZ"
LowerCase == "abcdefghijklmnopqrstuvwxyz"

\* The upper-case letters, each with its lower-case form.
LowerMap ==
    [c \in {SubSeq(UpperCase, i, i) : i \in 1..Len(UpperCase)} |->
        LET i == CHOOSE k \in 1..Len(UpperCase) : SubSeq(UpperCase, k, k) = c
        IN  SubSeq(LowerCase, i, i)]

\* The lower-case form of one character.
LowerChar(c) == IF c \in DOMAIN LowerMap THEN LowerMap[c] ELSE c

RECURSIVE ToLower(_)
ToLower(s) ==
    IF s = "" THEN ""
    ELSE LowerChar(SubSeq(s, 1, 1)) \o ToLower(SubSeq(s, 2, Len(s)))

Contains(s, substr) ==
    \E i \in 0..(Len(s) - Len(substr)) : SubSeq(s, i + 1, i + Len(substr)) = substr

Digits == "0123456789"

\* fmt.Sprintf("%d", n) for n >= 0.
RECURSIVE Itoa(_)
Itoa(n) ==
    IF n < 10 THEN SubSeq(Digits, n + 1, n + 1)
    ELSE Itoa(n \div 10) \o SubSeq(Digits, (n % 10) + 1, (n % 10) + 1)

--------------------------------------------------------------------------
(* package issues                                                          *)

SeverityCritical == "critical"
SeverityHigh == "high"
SeverityMedium == "medium"
SeverityLow == "low"
SeverityInfo == "info"

IssueExcessiveRerender == "excessive_rerender"
IssueCascadingUpdate == "cascading_update"
IssueFrequentTrigger == "frequent_trigger"
IssueDeepDependencyChain == "deep_dependency_chain"
IssueWholeObjectPassing == "whole_object_passing"
IssueTimerCascade == "timer_cascade"

Thresholds(rerender, depth, trigger) ==
    [ExcessiveRerenderCount |-> rerender,
     CascadeDepthLimit |-> depth,
     FrequentTriggerCount |-> trigger]

DefaultThresholds == Thresholds(10, 4, 15)

\* An Issue before Detect's nextID has numbered it.  Title, Description,
\* Impact and PerformanceHint are display text and are not modelled;
\* Confidence is in hundredths.
Issue(type, severity, affected, chain, updateCount, cascadeDepth, confidence) ==
    [Type |-> type, Severity |-> severity, AffectedNodes |-> affected,
     CauseChain |-> chain, UpdateCount |-> updateCount,
     CascadeDepth |-> cascadeDepth, Confidence |-> confidence]

\* A rank that puts medium above high.
severityRankSwapped(s) ==
    CASE s = SeverityCritical -> 5
      [] s = SeverityHigh -> 3
      [] s = SeverityMedium -> 4
      [] s = SeverityLow -> 2
      [] s = SeverityInfo -> 1
      [] OTHER -> 0

severityRank(s) ==
    CASE s = SeverityCritical -> 5
      [] s = SeverityHigh -> 4
      [] s = SeverityMedium -> 3
      [] s = SeverityLow -> 2
      [] s = SeverityInfo -> 1
      [] OTHER -> 0

\* Every sequence that lists each element of S once.
RECURSIVE Orders(_)
Orders(S) ==
    IF S = {} THEN {<<>>}
    ELSE UNION {{<<x>> \o o : o \in Orders(S \ {x})} : x \in S}

RECURSIVE Flatten(_)
Flatten(ss) == IF ss = <<>> THEN <<>> ELSE Head(ss) \o Flatten(Tail(ss))

\* for _, node := range g.Nodes { ... }, each iteration appending the
\* issues body[id] (none when it hits a `continue`).  Go leaves the order
\* in which a range loop visits a map's keys unspecified, and the loops of
\* the detectors read nothing an earlier iteration wrote: the possible
\* results are the orderings of the iterations that append something.
RangeNodes(body) ==
    LET emitting == {id \in DOMAIN body : body[id] # <<>>}
    IN  {Flatten([i \in 1..Len(o) |-> body[o[i]]]) : o \in Orders(emitting)}

\* An iteration that skips a view whose count equals the threshold.
excessiveRerenderAbove(node, th) ==
    IF node.Type # NodeView THEN <<>>
    ELSE IF node.Count <= th.ExcessiveRerenderCount THEN <<>>
    ELSE LET severity ==
                 IF node.Count > th.ExcessiveRerenderCount * 3 THEN SeverityCritical
                 ELSE IF node.Count > th.ExcessiveRerenderCount * 2 THEN SeverityHigh
                 ELSE SeverityMedium
         IN  <<Issue(IssueExcessiveRerender, severity, <<node.ID>>, <<>>,
                     node.Count, 0, 85)>>

\* An iteration whose severity bands include their lower ends.
excessiveRerenderInclusive(node, th) ==
    IF node.Type # NodeView THEN <<>>
    ELSE IF node.Count < th.ExcessiveRerenderCount THEN <<>>
    ELSE LET severity ==
                 IF node.Count >= th.ExcessiveRerenderCount * 3 THEN SeverityCritical
                 ELSE IF node.Count >= th.ExcessiveRerenderCount * 2 THEN SeverityHigh
                 ELSE SeverityMedium
         IN  <<Issue(IssueExcessiveRerender, severity, <<node.ID>>, <<>>,
                     node.Count, 0, 85)>>

\* detectExcessiveRerenders: one iteration of the loop over g.Nodes.
excessiveRerender(node, th) ==
    IF node.Type # NodeView THEN <<>>
    ELSE IF node.Count < th.ExcessiveRerenderCount THEN <<>>
    ELSE LET severity ==
                 IF node.Count > th.ExcessiveRerenderCount * 3 THEN SeverityCritical
                 ELSE IF node.Count > th.ExcessiveRerenderCount * 2 THEN SeverityHigh
                 ELSE SeverityMedium
         IN  <<Issue(IssueExcessiveRerender, severity, <<node.ID>>, <<>>,
                     node.Count, 0, 85)>>

detectExcessiveRerenders(nodes, edges, th) ==
    RangeNodes([id \in DOMAIN nodes |-> excessiveRerender(nodes[id], th)])

\* An iteration that counts the edges to any existing node.
cascadingUpdateAnyTarget(nodes, edges, node) ==
    IF node.Type # NodeState THEN <<>>
    ELSE LET toViews == SelectSeq(edges, LAMBDA e :
                            /\ e.From = node.ID
                            /\ e.To \in DOMAIN nodes)
             viewsAffected == Len(toViews)
             affectedViews == [i \in 1..Len(toViews) |-> nodes[toViews[i].To].Label]
         IN  IF viewsAffected >= 3
             THEN LET severity == IF viewsAffected >= 6 THEN SeverityHigh
                                  ELSE SeverityMedium
                  IN  <<Issue(IssueCascadingUpdate, severity,
                              <<node.ID>> \o affectedViews, <<>>,
                              0, viewsAffected, 75)>>
             ELSE <<>>

\* detectCascadingUpdates: one iteration of the loop over g.Nodes.
cascadingUpdate(nodes, edges, node) ==
    IF node.Type # NodeState THEN <<>>
    ELSE LET toViews == SelectSeq(edges, LAMBDA e :
                            /\ e.From = node.ID
                            /\ e.To \in DOMAIN nodes
                            /\ nodes[e.To].Type = NodeView)
             viewsAffected == Len(toViews)
             affectedViews == [i \in 1..Len(toViews) |-> nodes[toViews[i].To].Label]
         IN  IF viewsAffected >= 3
             THEN LET severity == IF viewsAffected >= 6 THEN SeverityHigh
                                  ELSE SeverityMedium
                  IN  <<Issue(IssueCascadingUpdate, severity,
                              <<node.ID>> \o affectedViews, <<>>,
                              0, viewsAffected, 75)>>
             ELSE <<>>

detectCascadingUpdates(nodes, edges, th) ==
    RangeNodes([id \in DOMAIN nodes |-> cascadingUpdate(nodes, edges, nodes[id])])

\* detectFrequentTriggers: one iteration of the loop over g.Nodes.
frequentTrigger(node, th) ==
    IF node.Type # NodeCause THEN <<>>
    ELSE IF node.Count < th.FrequentTriggerCount THEN <<>>
    ELSE LET severity == IF node.Count > th.FrequentTriggerCount * 3 THEN SeverityHigh
                         ELSE SeverityMedium
         IN  <<Issue(IssueFrequentTrigger, severity, <<node.ID>>, <<>>,
                     node.Count, 0, 70)>>

detectFrequentTriggers(nodes, edges, th) ==
    RangeNodes([id \in DOMAIN nodes |-> frequentTrigger(nodes[id], th)])

\* A map[string]bool: reading a missing key gives false.
MapGet(m, k) == k \in DOMAIN m /\ m[k]
MapSet(m, k, v) == [x \in DOMAIN m \cup {k} |-> IF x = k THEN v ELSE m[x]]

\* A search without the deferred reset: a node stays marked once visited.
RECURSIVE findLongestChainMarked(_, _, _)
findLongestChainMarked(edges, nodeID, visited) ==
    IF MapGet(visited, nodeID) THEN [chain |-> <<>>, visited |-> visited]
    ELSE LET RECURSIVE loop(_, _, _)
             loop(i, longest, vis) ==
                 IF i > Len(edges) THEN [chain |-> longest, visited |-> vis]
                 ELSE IF edges[i].From # nodeID THEN loop(i + 1, longest, vis)
                 ELSE LET sub == findLongestChainMarked(edges, edges[i].To, vis)
                      IN  loop(i + 1,
                               IF Len(sub.chain) + 1 > Len(longest)
                               THEN <<nodeID>> \o sub.chain
                               ELSE longest,
                               sub.visited)
         IN  loop(1, <<nodeID>>, MapSet(visited, nodeID, TRUE))

\* findLongestChain; returns the chain and the visited map as the call
\* leaves it (the deferred function has run).
RECURSIVE findLongestChain(_, _, _)
findLongestChain(edges, nodeID, visited) ==
    IF MapGet(visited, nodeID) THEN [chain |-> <<>>, visited |-> visited]
    ELSE LET RECURSIVE loop(_, _, _)
             loop(i, longest, vis) ==
                 IF i > Len(edges) THEN [chain |-> longest, visited |-> vis]
                 ELSE IF edges[i].From # nodeID THEN loop(i + 1, longest, vis)
                 ELSE LET sub == findLongestChain(edges, edges[i].To, vis)
                      IN  loop(i + 1,
                               IF Len(sub.chain) + 1 > Len(longest)
                               THEN <<nodeID>> \o sub.chain
                               ELSE longest,
                               sub.visited)
             r == loop(1, <<nodeID>>, MapSet(visited, nodeID, TRUE))
         IN  [chain |-> r.chain, visited |-> MapSet(r.visited, nodeID, FALSE)]

\* An iteration that reports a chain as long as the limit.
deepChainAtLimit(nodes, edges, th, startNode) ==
    IF startNode.Type # NodeCause THEN <<>>
    ELSE LET chain == findLongestChain(edges, startNode.ID, <<>>).chain
         IN  IF Len(chain) >= th.CascadeDepthLimit
             THEN LET severity == IF Len(chain) > th.CascadeDepthLimit * 2
                                  THEN SeverityHigh ELSE SeverityMedium
                      chainLabels == [i \in 1..Len(chain) |->
                                         IF chain[i] \in DOMAIN nodes
                                         THEN nodes[chain[i]].Label
                                         ELSE chain[i]]
                  IN  <<Issue(IssueDeepDependencyChain, severity, chain,
                              chainLabels, 0, Len(chain), 80)>>
             ELSE <<>>

\* An iteration that escalates a chain longer than twice the limit to
\* critical.
deepChainCritical(nodes, edges, th, startNode) ==
    IF startNode.Type # NodeCause THEN <<>>
    ELSE LET chain == findLongestChain(edges, startNode.ID, <<>>).chain
         IN  IF Len(chain) > th.CascadeDepthLimit
             THEN LET severity == IF Len(chain) > th.CascadeDepthLimit * 2
                                  THEN SeverityCritical ELSE SeverityMedium
                      chainLabels == [i \in 1..Len(chain) |->
                                         IF chain[i] \in DOMAIN nodes
                                         THEN nodes[chain[i]].Label
                                         ELSE chain[i]]
                  IN  <<Issue(IssueDeepDependencyChain, severity, chain,
                              chainLabels, 0, Len(chain), 80)>>
             ELSE <<>>

\* detectDeepChains: one iteration of the loop over g.Nodes.
deepChain(nodes, edges, th, startNode) ==
    IF startNode.Type # NodeCause THEN <<>>
    ELSE LET chain == findLongestChain(edges, startNode.ID, <<>>).chain
         IN  IF Len(chain) > th.CascadeDepthLimit
             THEN LET severity == IF Len(chain) > th.CascadeDepthLimit * 2
                                  THEN SeverityHigh ELSE SeverityMedium
                      chainLabels == [i \in 1..Len(chain) |->
                                         IF chain[i] \in DOMAIN nodes
                                         THEN nodes[chain[i]].Label
                                         ELSE chain[i]]
                  IN  <<Issue(IssueDeepDependencyChain, severity, chain,
                              chainLabels, 0, Len(chain), 80)>>
             ELSE <<>>

detectDeepChains(nodes, edges, th) ==
    RangeNodes([id \in DOMAIN nodes |-> deepChain(nodes, edges, th, nodes[id])])

\* The closure dfs of findReachableViews; st holds the variables it
\* captures: visited (the keys set to true) and views.
RECURSIVE dfs(_, _, _, _)
dfs(nodes, edges, id, st) ==
    IF id \in st.visited THEN st
    ELSE LET entered ==
                 [visited |-> st.visited \cup {id},
                  views |-> IF id \in DOMAIN nodes /\ nodes[id].Type = NodeView
                            THEN Append(st.views, id)
                            ELSE st.views]
             RECURSIVE loop(_, _)
             loop(i, cur) ==
                 IF i > Len(edges) THEN cur
                 ELSE IF edges[i].From = id
                      THEN loop(i + 1, dfs(nodes, edges, edges[i].To, cur))
                      ELSE loop(i + 1, cur)
         IN  loop(1, entered)

findReachableViews(nodes, edges, startID) ==
    dfs(nodes, edges, startID, [visited |-> {}, views |-> <<>>]).views

\* An iteration that looks for the keywords without lowering the label.
timerCascadeCaseSensitive(nodes, edges, node) ==
    IF node.Type # NodeCause THEN <<>>
    ELSE LET label == node.Label
         IN  IF ~Contains(label, "timer") /\ ~Contains(label, "interval") THEN <<>>
             ELSE LET affected == findReachableViews(nodes, edges, node.ID)
                  IN  IF Len(affected) >= 2
                      THEN <<Issue(IssueTimerCascade, SeverityHigh,
                                   <<node.ID>> \o affected, <<node.Label>>,
                                   0, 0, 90)>>
                      ELSE <<>>

\* detectTimerCascades: one iteration of the loop over g.Nodes.
timerCascade(nodes, edges, node) ==
    IF node.Type # NodeCause THEN <<>>
    ELSE LET label == ToLower(node.Label)
         IN  IF ~Contains(label, "timer") /\ ~Contains(label, "interval") THEN <<>>
             ELSE LET affected == findReachableViews(nodes, edges, node.ID)
                  IN  IF Len(affected) >= 2
                      THEN <<Issue(IssueTimerCascade, SeverityHigh,
                                   <<node.ID>> \o affected, <<node.Label>>,
                                   0, 0, 90)>>
                      ELSE <<>>

detectTimerCascades(nodes, edges, th) ==
    RangeNodes([id \in DOMAIN nodes |-> timerCascade(nodes, edges, nodes[id])])

\* A count of the outgoing edges whatever their target.
countAffectedViewsAnyTarget(nodes, edges, nodeID) ==
    Len(SelectSeq(edges, LAMBDA e : e.From = nodeID))

countAffectedViews(nodes, edges, nodeID) ==
    Len(SelectSeq(edges, LAMBDA e :
            /\ e.From = nodeID
            /\ e.To \in DOMAIN nodes
            /\ nodes[e.To].Type = NodeView))

\* detectWholeObjectPassing: one iteration of the loop over g.Nodes.
wholeObjectPassing(nodes, edges, node) ==
    IF node.Type # NodeState THEN <<>>
    ELSE LET label == ToLower(node.Label)
             isGeneric == \/ Contains(label, "model")
                          \/ Contains(label, "viewmodel")
                          \/ Contains(label, "store")
                          \/ Contains(label, "state")
                          \/ Contains(label, "object")
         IN  IF ~isGeneric THEN <<>>
             ELSE IF countAffectedViews(nodes, edges, node.ID) >= 3
                  THEN <<Issue(IssueWholeObjectPassing, SeverityMedium,
                               <<node.ID>>, <<>>, 0, 0, 60)>>
                  ELSE <<>>

detectWholeObjectPassing(nodes, edges, th) ==
    RangeNodes([id \in DOMAIN nodes |-> wholeObjectPassing(nodes, edges, nodes[id])])

\* A numbering that starts at zero.
nextIDFromZero(issueID) == "issue-" \o Itoa(issueID)

\* nextID: the n-th issue appended is "issue-n".
nextID(issueID) == "issue-" \o Itoa(issueID + 1)

WithID(issue, id) ==
    [ID |-> id, Type |-> issue.Type, Severity |-> issue.Severity,
     AffectedNodes |-> issue.AffectedNodes, CauseChain |-> issue.CauseChain,
     UpdateCount |-> issue.UpdateCount, CascadeDepth |-> issue.CascadeDepth,
     Confidence |-> issue.Confidence]

\* Detect, lines 96 to 120: the values the slice `issues` may hold when
\* the six detectors have run, each issue numbered as it was appended.
DetectAppend(nodes, edges, th) ==
    {LET all == a \o b \o c \o d \o e \o f
     IN  [i \in 1..Len(all) |-> WithID(all[i], nextID(i - 1))] :
        a \in detectExcessiveRerenders(nodes, edges, th),
        b \in detectCascadingUpdates(nodes, edges, th),
        c \in detectFrequentTriggers(nodes, edges, th),
        d \in detectDeepChains(nodes, edges, th),
        e \in detectTimerCascades(nodes, edges, th),
        f \in detectWholeObjectPassing(nodes, edges, th)}

\* The less function Detect hands to sort.Slice.
SeverityLess(a, b) == severityRank(a.Severity) > severityRank(b.Severity)

\* sort.Slice(issues, SeverityLess): the slice sorted by the less function;
\* "the sort is not guaranteed to be stable", so the result is any ordering
\* of the slice in which no element is less than one before it.  I is the
\* set of indices still to place.
RECURSIVE SortedOrders(_, _)
SortedOrders(s, I) ==
    IF I = {} THEN {<<>>}
    ELSE LET first == {i \in I : \A j \in I : ~SeverityLess(s[j], s[i])}
         IN  {a \o b : a \in Orders(first), b \in SortedOrders(s, I \ first)}

SortSlice(s) ==
    {[k \in 1..Len(s) |-> s[o[k]]] : o \in SortedOrders(s, 1..Len(s))}

\* Detector.Detect as a step: the detector's six passes, then the sort.
DetectCall ==
    /\ pc = "build"
    /\ \E d \in DetectAppend(Nodes, Edges, thresholds) :
         \E r \in SortSlice(d) :
            /\ detected' = d
            /\ issues' = r
    /\ pc' = "done"
    /\ UNCHANGED <<Nodes, Edges, thresholds>>
    /\ UNCHANGED cliVars

--------------------------------------------------------------------------
(* The calls of the graph store as steps.  A step leaves `trace` to the    *)
(* specification: the graph-store specification records every call in it.  *)

UpsertNodeCall(n) ==
    /\ pc = "build"
    /\ Nodes' = UpsertNode(Nodes, n)
    /\ UNCHANGED <<Edges, thresholds, detected, issues, pc>>
    /\ UNCHANGED cliVars

AddEdgeCall(e) ==
    /\ pc = "build"
    /\ Edges' = AddEdge(Edges, e)
    /\ UNCHANGED <<Nodes, thresholds, detected, issues, pc>>
    /\ UNCHANGED cliVars

--------------------------------------------------------------------------
(* Specification of the graph store alone: any sequence of UpsertNode and  *)
(* AddEdge calls on a new graph, every call recorded in `trace`.           *)

GraphNodeInputs ==
    {Node("n1", "", NodeOther, 3),
     Node("n1", "Updated Label", NodeState, 10),
     Node("n1", "Good Label", NodeView, 5),
     Node("n1", "", NodeOther, 2),
     Node("n1", "Good Label", NodeCause, 7),
     Node("n2", "Test Node", NodeCause, 5),
     Node("n2", "", NodeView, 0)}

GraphEdgeInputs ==
    {Edge("n1", "n2", "causes"),
     Edge("a", "b", "causes"),
     Edge("n2", "n2", "")}

InitGraph ==
    /\ Nodes = New.Nodes
    /\ Edges = New.Edges
    /\ thresholds = DefaultThresholds
    /\ detected = <<>>
    /\ issues = <<>>
    /\ pc = "build"
    /\ trace = <<>>
    /\ NoCommand

UpsertNodeStep ==
    \E n \in GraphNodeInputs :
        /\ Len(trace) < MaxCalls
        /\ UpsertNodeCall(n)
        /\ trace' = Append(trace, [op |-> "UpsertNode", node |-> n])

AddEdgeStep ==
    \E e \in GraphEdgeInputs :
        /\ Len(trace) < MaxCalls
        /\ AddEdgeCall(e)
        /\ trace' = Append(trace, [op |-> "AddEdge", edge |-> e])

NextGraph == UpsertNodeStep \/ AddEdgeStep

SpecGraph == InitGraph /\ [][NextGraph]_vars

--------------------------------------------------------------------------
(* Specifications of the detector: a graph is ingested by UpsertNode and   *)
(* AddEdge calls, then Detect runs once on it (the pipeline of             *)
(* aioutput.Generator).  Each starts from graphs the calls can build and   *)
(* goes on with the calls of its input sets.                               *)

RECURSIVE UpsertEach(_, _)
UpsertEach(nodes, recs) ==
    IF recs = <<>> THEN nodes
    ELSE UpsertEach(UpsertNode(nodes, Head(recs)), Tail(recs))

RECURSIVE AddEach(_, _)
AddEach(edges, es) ==
    IF es = <<>> THEN edges
    ELSE AddEach(AddEdge(edges, Head(es)), Tail(es))

\* The graph that upserting `recs` and adding `es` to a new graph builds.
Built(recs, es) ==
    [Nodes |-> UpsertEach(New.Nodes, recs), Edges |-> AddEach(New.Edges, es)]

InitDetect(graphs, ths) ==
    /\ \E g \in graphs : Nodes = g.Nodes /\ Edges = g.Edges
    /\ thresholds \in ths
    /\ detected = <<>>
    /\ issues = <<>>
    /\ pc = "build"
    /\ trace = <<>>
    /\ NoCommand

NextDetect(nodeInputs, edgeInputs) ==
    \/ \E n \in nodeInputs : UpsertNodeCall(n) /\ UNCHANGED trace
    \/ \E e \in edgeInputs :
          Len(Edges) < MaxEdges /\ AddEdgeCall(e) /\ UNCHANGED trace
    \/ DetectCall /\ UNCHANGED trace

\* TestDetect_ExcessiveRerender
ScenarioA ==
    Built(<<Node("v1", "ItemRow", NodeView, 50), Node("s1", "@State", NodeState, 0)>>,
          <<Edge("s1", "v1", "")>>)

\* TestDetect_NoIssues
ScenarioC ==
    Built(<<Node("c1", "Button tap", NodeCause, 0),
            Node("s1", "@State", NodeState, 0),
            Node("v1", "ContentView", NodeView, 2)>>,
          <<Edge("c1", "s1", ""), Edge("s1", "v1", "")>>)

(* Excessive re-renders: view counts around one, two and three times the   *)
(* threshold, for the thresholds 10 and 3.                                 *)

RerenderNodeInputs ==
    {Node("v1", "ItemRow", NodeView, c) : c \in {3, 6, 7, 9, 10, 20, 21, 30, 31}}
    \cup {Node("v2", "DetailRow", NodeView, c) : c \in {10, 31}}
    \cup {Node("s1", "@State", NodeState, 50), Node("c1", "Button tap", NodeCause, 50)}

RerenderEdgeInputs == {Edge("s1", "v1", "")}

InitRerender ==
    InitDetect({ScenarioA, ScenarioC}, {DefaultThresholds, Thresholds(3, 4, 20)})

NextRerender == NextDetect(RerenderNodeInputs, RerenderEdgeInputs)

SpecRerender == InitRerender /\ [][NextRerender]_vars

\* TestDetect_CascadingUpdate
ScenarioB ==
    Built(<<Node("s1", "AppState", NodeState, 0),
            Node("v1", "View1", NodeView, 0),
            Node("v2", "View2", NodeView, 0),
            Node("v3", "View3", NodeView, 0),
            Node("v4", "View4", NodeView, 0)>>,
          <<Edge("s1", "v1", ""), Edge("s1", "v2", ""),
            Edge("s1", "v3", ""), Edge("s1", "v4", "")>>)

\* TestDetect_TimerCascade
ScenarioTimer ==
    Built(<<Node("c1", "Timer fired", NodeCause, 0),
            Node("s1", "time state", NodeState, 0),
            Node("v1", "ClockView", NodeView, 0),
            Node("v2", "HeaderView", NodeView, 0)>>,
          <<Edge("c1", "s1", ""), Edge("s1", "v1", ""), Edge("s1", "v2", "")>>)

\* A graph on which all six detectors find something.
ScenarioMixed ==
    Built(<<Node("c1", "Timer fired", NodeCause, 50),
            Node("s1", "AppState", NodeState, 0),
            Node("v1", "View1", NodeView, 0),
            Node("v2", "View2", NodeView, 10),
            Node("v3", "View3", NodeView, 0)>>,
          <<Edge("c1", "s1", ""), Edge("s1", "v1", ""),
            Edge("s1", "v2", ""), Edge("s1", "v3", "")>>)

(* The whole detector: graphs on which several detectors fire, with        *)
(* issues of equal and of different severities.                            *)

MixedNodeInputs ==
    {Node("v1", "View1", NodeView, c) : c \in {10, 21, 31}}
    \cup {Node("v3", "View3", NodeView, 10)}

MixedEdgeInputs == {Edge("s1", "v1", ""), Edge("v1", "c1", "")}

InitMixed ==
    InitDetect({ScenarioB, ScenarioTimer, ScenarioMixed},
               {DefaultThresholds, Thresholds(3, 2, 20)})

NextMixed == NextDetect(MixedNodeInputs, MixedEdgeInputs)

SpecMixed == InitMixed /\ [][NextMixed]_vars

(* Cascading updates: a State with up to MaxEdges outgoing edges, to      *)
(* views, to a node of another kind and to an id that is no node.          *)

\* The nodes of ScenarioB with one edge.
ScenarioOneEdge ==
    Built(<<Node("s1", "AppState", NodeState, 0),
            Node("v1", "View1", NodeView, 0),
            Node("v2", "View2", NodeView, 0),
            Node("v3", "View3", NodeView, 0),
            Node("v4", "View4", NodeView, 0)>>,
          <<Edge("s1", "v1", "")>>)

CascadeNodeInputs ==
    {Node("c1", "Tap", NodeCause, 0), Node("ghost", "LateView", NodeView, 0)}

CascadeEdgeInputs ==
    {Edge("s1", "v1", ""), Edge("s1", "v2", ""), Edge("s1", "v3", ""),
     Edge("s1", "c1", ""), Edge("s1", "ghost", "")}

InitCascade == InitDetect({ScenarioB, ScenarioOneEdge}, {DefaultThresholds})

NextCascade == NextDetect(CascadeNodeInputs, CascadeEdgeInputs)

SpecCascade == InitCascade /\ [][NextCascade]_vars

(* Deep chains: the linear graph cause -> a -> b -> c -> view, a graph     *)
(* whose short branch comes first in the edge slice and a shorter chain,   *)
(* extended by cycles, self-loops, shortcuts and dangling edges; depth     *)
(* limits 4 (the default), 5 and 2.                                        *)

ChainNodes ==
    <<Node("cause", "tap", NodeCause, 0),
      Node("a", "a", NodeState, 0),
      Node("b", "b", NodeState, 0),
      Node("c", "c", NodeState, 0),
      Node("view", "view", NodeView, 0)>>

ScenarioChain ==
    Built(ChainNodes,
          <<Edge("cause", "a", ""), Edge("a", "b", ""),
            Edge("b", "c", ""), Edge("c", "view", "")>>)

ScenarioBranch ==
    Built(ChainNodes,
          <<Edge("cause", "c", ""), Edge("c", "view", ""),
            Edge("cause", "a", ""), Edge("a", "b", ""), Edge("b", "c", "")>>)

ScenarioShortChain ==
    Built(ChainNodes,
          <<Edge("cause", "a", ""), Edge("a", "b", ""), Edge("b", "c", "")>>)

ChainNodeInputs == {Node("x", "gesture", NodeCause, 0)}

ChainEdgeInputs ==
    {Edge("view", "a", ""), Edge("b", "b", ""), Edge("view", "ghost", ""),
     Edge("cause", "c", ""), Edge("x", "cause", ""), Edge("c", "view", "")}

InitChain ==
    InitDetect({ScenarioChain, ScenarioBranch, ScenarioShortChain},
               {DefaultThresholds, Thresholds(10, 5, 15), Thresholds(10, 2, 15)})

NextChain == NextDetect(ChainNodeInputs, ChainEdgeInputs)

SpecChain == InitChain /\ [][NextChain]_vars

(* Timer cascades: causes with and without a timer keyword, in either      *)
(* case, over graphs with cycles, duplicate and dangling edges.            *)

ScenarioOneView ==
    Built(<<Node("c1", "Timer fired", NodeCause, 0),
            Node("s1", "time state", NodeState, 0),
            Node("v1", "ClockView", NodeView, 0),
            Node("v2", "HeaderView", NodeView, 0)>>,
          <<Edge("c1", "s1", ""), Edge("s1", "v1", "")>>)

TimerNodeInputs ==
    {Node("c2", "INTERVAL tick", NodeCause, 0),
     Node("c3", "Button tap", NodeCause, 0)}

TimerEdgeInputs ==
    {Edge("s1", "v2", ""), Edge("v2", "c1", ""), Edge("c2", "s1", ""),
     Edge("c3", "s1", ""), Edge("c1", "ghost", ""), Edge("ghost", "v2", "")}

InitTimer == InitDetect({ScenarioTimer, ScenarioOneView}, {DefaultThresholds})

NextTimer == NextDetect(TimerNodeInputs, TimerEdgeInputs)

SpecTimer == InitTimer /\ [][NextTimer]_vars

--------------------------------------------------------------------------
(* Graph store: history operators.                                         *)

\* The node records passed to UpsertNode for `id` so far, in call order.
UpsertsOf(id) ==
    LET calls == SelectSeq(trace, LAMBDA c : c.op = "UpsertNode" /\ c.node.ID = id)
    IN  [i \in 1..Len(calls) |-> calls[i].node]

UpsertedIds ==
    {trace[i].node.ID : i \in {j \in 1..Len(trace) : trace[j].op = "UpsertNode"}}

MaxCountOf(recs) ==
    CHOOSE m \in {recs[i].Count : i \in 1..Len(recs)} :
        \A i \in 1..Len(recs) : recs[i].Count <= m

\* Every reordering of a sequence.
Reorderings(s) ==
    {[i \in 1..Len(s) |-> s[f[i]]] : f \in Permutations(1..Len(s))}

RECURSIVE UpsertAll(_, _)
UpsertAll(nodes, recs) ==
    IF recs = <<>> THEN nodes
    ELSE UpsertAll(UpsertNode(nodes, Head(recs)), Tail(recs))

\* The node a new graph holds for the one id of `recs` after upserting
\* them in the order given.
FoldNode(recs) == UpsertAll(New.Nodes, recs)[recs[1].ID]

NonEmptyLabels(recs) == {recs[i].Label : i \in 1..Len(recs)} \ {""}
SpecificKinds(recs) == {recs[i].Type : i \in 1..Len(recs)} \ {NodeOther}

FirstLabel(recs) ==
    IF NonEmptyLabels(recs) = {} THEN ""
    ELSE recs[CHOOSE i \in 1..Len(recs) :
                 /\ recs[i].Label # ""
                 /\ \A j \in 1..(i - 1) : recs[j].Label = ""].Label

FirstKind(recs) ==
    IF SpecificKinds(recs) = {} THEN NodeOther
    ELSE recs[CHOOSE i \in 1..Len(recs) :
                 /\ recs[i].Type # NodeOther
                 /\ \A j \in 1..(i - 1) : recs[j].Type = NodeOther].Type

--------------------------------------------------------------------------
(* C1: after any sequence of UpsertNode calls the graph holds exactly one  *)
(* node per distinct id upserted, whose count is the maximum count         *)
(* upserted for that id; and no call replaces a non-empty label by an      *)
(* empty one, turns a kind of cause/state/view into other, or lowers a     *)
(* count.                                                                  *)

C1_State ==
    /\ DOMAIN Nodes = UpsertedIds
    /\ \A id \in DOMAIN Nodes :
        /\ Nodes[id].ID = id
        /\ Nodes[id].Count = MaxCountOf(UpsertsOf(id))

C1_Step ==
    \A id \in DOMAIN Nodes :
        /\ id \in DOMAIN Nodes'
        /\ Nodes[id].Label # "" => Nodes'[id].Label # ""
        /\ Nodes[id].Type \in {NodeCause, NodeState, NodeView}
              => Nodes'[id].Type # NodeOther
        /\ Nodes'[id].Count >= Nodes[id].Count

C1_UpsertNeverDowngrades == []C1_State /\ [][C1_Step]_vars

\* A node upserted again with an empty label, kind other and a lower count
\* has kept its label, kind and count.
C1_Witness ==
    \E id \in DOMAIN Nodes :
        LET recs == UpsertsOf(id) IN
        /\ Len(recs) >= 2
        /\ recs[Len(recs)].Label = ""
        /\ recs[Len(recs)].Type = NodeOther
        /\ recs[Len(recs)].Count < Nodes[id].Count
        /\ Nodes[id].Label # ""
        /\ Nodes[id].Type # NodeOther

--------------------------------------------------------------------------
(* C2 as claimed: for the records upserted under one id, every order of    *)
(* upserting them yields the label, kind and count the graph holds.        *)

C2_OrderIndependent ==
    \A id \in DOMAIN Nodes :
        \A p \in Reorderings(UpsertsOf(id)) :
            /\ FoldNode(p).Label = Nodes[id].Label
            /\ FoldNode(p).Type = Nodes[id].Type
            /\ FoldNode(p).Count = Nodes[id].Count

(* C2 as amended: the final label is the first non-empty label and the     *)
(* final kind the first kind other than other, in arrival order; every     *)
(* order yields the same count, the same label when the records hold at    *)
(* most one distinct non-empty label, and the same kind when they hold at  *)
(* most one distinct kind other than other.                                *)

C2_MergeOrder ==
    \A id \in DOMAIN Nodes :
        LET recs == UpsertsOf(id) IN
        /\ Nodes[id].Label = FirstLabel(recs)
        /\ Nodes[id].Type = FirstKind(recs)
        /\ \A p \in Reorderings(recs) :
            /\ FoldNode(p).Count = Nodes[id].Count
            /\ Cardinality(NonEmptyLabels(recs)) <= 1
                  => FoldNode(p).Label = Nodes[id].Label
            /\ Cardinality(SpecificKinds(recs)) <= 1
                  => FoldNode(p).Type = Nodes[id].Type

\* Three records of one id with three different counts, one non-empty
\* label and one specific kind among them, the most informative not first.
C2_Witness ==
    \E id \in DOMAIN Nodes :
        LET recs == UpsertsOf(id) IN
        /\ Len(recs) >= 3
        /\ Cardinality({recs[i].Count : i \in 1..Len(recs)}) >= 3
        /\ Cardinality(NonEmptyLabels(recs)) = 1
        /\ Cardinality(SpecificKinds(recs)) = 1
        /\ recs[1].Label = ""
        /\ recs[1].Type = NodeOther
        /\ recs[1].Count < Nodes[id].Count

--------------------------------------------------------------------------
(* C3: every step keeps the earlier edges at their positions; an AddEdge   *)
(* call appends its edge, whatever its endpoints and whether or not the    *)
(* slice already holds it, grows the slice by exactly one and leaves the   *)
(* node map unchanged; an UpsertNode call leaves the edges unchanged.      *)

C3_Step ==
    /\ Len(Edges') >= Len(Edges)
    /\ SubSeq(Edges', 1, Len(Edges)) = Edges
    /\ Len(trace') = Len(trace) + 1 =>
        LET call == trace'[Len(trace')] IN
        /\ call.op = "AddEdge" =>
              /\ Len(Edges') = Len(Edges) + 1
              /\ Edges'[Len(Edges')] = call.edge
              /\ Nodes' = Nodes
        /\ call.op = "UpsertNode" => Edges' = Edges

C3_AddEdgeAppends == [][C3_Step]_vars

\* The same dangling edge added twice, with a node upserted in between.
C3_Witness ==
    /\ Len(trace) >= 3
    /\ trace[1].op = "AddEdge"
    /\ trace[2].op = "UpsertNode"
    /\ trace[3].op = "AddEdge"
    /\ trace[3].edge = trace[1].edge
    /\ trace[1].edge.From \notin DOMAIN Nodes
    /\ Len(Edges) = 2
    /\ Edges[1] = Edges[2]

--------------------------------------------------------------------------
(* Detector: operators of the claims.                                      *)

IssuesOfType(type) == SelectSeq(issues, LAMBDA x : x.Type = type)

\* The issues of a type whose first affected node is `id`.
IssuesAbout(type, id) ==
    SelectSeq(issues, LAMBDA x : x.Type = type /\ x.AffectedNodes[1] = id)

--------------------------------------------------------------------------
(* C6: Detect returns exactly one excessive_rerender issue for each View   *)
(* node whose count is at least the threshold and none for any other       *)
(* node; on the graph of one View of count 50, one State and one edge      *)
(* State -> View, with threshold 10, it returns exactly one, critical.     *)

--------------------------------------------------------------------------
(* C7 as claimed: an excessive_rerender issue for a count c and threshold  *)
(* T is medium when c < 2T, high when 2T <= c < 3T, critical when          *)
(* c >= 3T.                                                                *)

--------------------------------------------------------------------------
(* C4: the list Detect returns is ordered by non-increasing severity rank  *)
(* (critical 5, high 4, medium 3, low 2, info 1, anything else 0).         *)

RankOf(severity) ==
    IF severity = "critical" THEN 5
    ELSE IF severity = "high" THEN 4
    ELSE IF severity = "medium" THEN 3
    ELSE IF severity = "low" THEN 2
    ELSE IF severity = "info" THEN 1
    ELSE 0

C4_SortedBySeverity ==
    pc = "done" =>
        \A i, j \in 1..Len(issues) :
            i < j => RankOf(issues[i].Severity) >= RankOf(issues[j].Severity)

\* Detect has returned issues of three severities, the first one detected
\* not among the most severe.
C4_Witness ==
    /\ pc = "done"
    /\ Cardinality({issues[i].Severity : i \in 1..Len(issues)}) >= 3
    /\ RankOf(detected[1].Severity) < RankOf(issues[1].Severity)

--------------------------------------------------------------------------
(* C5 as claimed: the detectors' issues are appended in the order          *)
(* excessive_rerender, cascading_update, frequent_trigger,                 *)
(* deep_dependency_chain, timer_cascade, whole_object_passing, and the     *)
(* list returned is their stable sort by descending rank: issues of equal  *)
(* severity keep the order in which they were detected.                    *)

DetectorOrder(type) ==
    IF type = IssueExcessiveRerender THEN 1
    ELSE IF type = IssueCascadingUpdate THEN 2
    ELSE IF type = IssueFrequentTrigger THEN 3
    ELSE IF type = IssueDeepDependencyChain THEN 4
    ELSE IF type = IssueTimerCascade THEN 5
    ELSE 6

\* The position at which an issue of the returned list was detected.
DetectedAt(issue) == CHOOSE k \in 1..Len(detected) : detected[k] = issue

C5_StableSort ==
    pc = "done" =>
        /\ \A i, j \in 1..Len(detected) :
              i < j => DetectorOrder(detected[i].Type) <= DetectorOrder(detected[j].Type)
        /\ Len(issues) = Len(detected)
        /\ \A i \in 1..Len(issues) : \E k \in 1..Len(detected) : detected[k] = issues[i]
        /\ \A i, j \in 1..Len(issues) :
              i < j =>
                 \/ RankOf(issues[i].Severity) > RankOf(issues[j].Severity)
                 \/ /\ RankOf(issues[i].Severity) = RankOf(issues[j].Severity)
                    /\ DetectedAt(issues[i]) < DetectedAt(issues[j])

--------------------------------------------------------------------------
(* C8: Detect returns exactly one cascading_update issue for each State    *)
(* node with at least 3 outgoing edges to existing View nodes and none     *)
(* for any other node; it is high when there are at least 6 such edges,    *)
(* medium otherwise, and lists the label of every affected view; a State   *)
(* with edges to 4 distinct views yields one medium issue with the 4       *)
(* labels.                                                                 *)

\* The positions of the edges from `id` to an existing View node.
ViewEdges(id) ==
    {i \in 1..Len(Edges) :
        /\ Edges[i].From = id
        /\ Edges[i].To \in DOMAIN Nodes
        /\ Nodes[Edges[i].To].Type = NodeView}

Elements(seq) == {seq[i] : i \in 1..Len(seq)}

--------------------------------------------------------------------------
(* C9: for each Cause node Detect returns a deep_dependency_chain issue    *)
(* exactly when the longest simple path from that node along the edges,    *)
(* counted in the ids on it, is longer than the depth limit; the chain of  *)
(* the issue is such a path of maximal length, and the issue is high iff   *)
(* that length exceeds twice the limit, else medium.  On the linear graph  *)
(* cause -> a -> b -> c -> view it is returned with limit 4 and not with   *)
(* limit 5.  (A path runs over ids: the target of a dangling edge counts.) *)

IsSimplePath(p) ==
    /\ Len(p) >= 1
    /\ \A i, j \in 1..Len(p) : i # j => p[i] # p[j]
    /\ \A i \in 1..(Len(p) - 1) :
          \E k \in 1..Len(Edges) : Edges[k].From = p[i] /\ Edges[k].To = p[i + 1]

\* The simple paths from `id`, by extending paths edge by edge.
RECURSIVE PathsClosure(_)
PathsClosure(P) ==
    LET more == UNION {{Append(p, Edges[k].To) :
                           k \in {m \in 1..Len(Edges) : Edges[m].From = p[Len(p)]}} :
                       p \in P}
        next == P \cup {q \in more : \A i \in 1..(Len(q) - 1) : q[i] # q[Len(q)]}
    IN  IF next = P THEN P ELSE PathsClosure(next)

LongestPathLen(id) ==
    LET lens == {Len(p) : p \in PathsClosure({<<id>>})}
    IN  CHOOSE m \in lens : \A n \in lens : n <= m

--------------------------------------------------------------------------
(* C10: for each Cause node whose label contains "timer" or "interval" in  *)
(* any case, Detect returns one timer_cascade issue exactly when at least  *)
(* 2 distinct View nodes are reachable from it along the edges, always     *)
(* high, listing each reachable View once; for any other node it returns   *)
(* none.  The scan ends on cyclic graphs.                                  *)

\* The labels of the inputs that contain "timer" or "interval" in some case.
TimerLabels == {"Timer fired", "INTERVAL tick"}
OtherLabels ==
    {"time state", "ClockView", "HeaderView", "Button tap"}

RECURSIVE ReachClosure(_)
ReachClosure(S) ==
    LET next == S \cup {Edges[k].To : k \in {m \in 1..Len(Edges) : Edges[m].From \in S}}
    IN  IF next = S THEN S ELSE ReachClosure(next)

ReachableViews(id) ==
    {n \in ReachClosure({id}) : n \in DOMAIN Nodes /\ Nodes[n].Type = NodeView}

C10_TimerCascadePerCause ==
    pc = "done" =>
        /\ \A id \in DOMAIN Nodes : Nodes[id].Label \in TimerLabels \cup OtherLabels
        /\ \A i \in 1..Len(issues) :
              issues[i].Type = IssueTimerCascade =>
                  issues[i].AffectedNodes[1] \in DOMAIN Nodes
        /\ \A id \in DOMAIN Nodes :
              LET found == IssuesAbout(IssueTimerCascade, id)
                  views == ReachableViews(id)
              IN  IF /\ Nodes[id].Type = NodeCause
                     /\ Nodes[id].Label \in TimerLabels
                     /\ Cardinality(views) >= 2
                  THEN /\ Len(found) = 1
                       /\ found[1].Severity = SeverityHigh
                       /\ Len(found[1].AffectedNodes) = Cardinality(views) + 1
                       /\ Elements(Tail(found[1].AffectedNodes)) = views
                  ELSE Len(found) = 0

\* Detect has reported a cause with an upper-case keyword and a cause that
\* lies on a cycle, in a graph that holds the same edge to a view twice.
C10_Witness ==
    /\ pc = "done"
    /\ \E id \in DOMAIN Nodes :
        /\ Nodes[id].Label = "INTERVAL tick"
        /\ Len(IssuesAbout(IssueTimerCascade, id)) = 1
    /\ \E id \in DOMAIN Nodes :
        /\ Nodes[id].Label \in TimerLabels
        /\ id \in ReachClosure({Edges[k].To : k \in {m \in 1..Len(Edges) : Edges[m].From = id}})
        /\ Len(IssuesAbout(IssueTimerCascade, id)) = 1
    /\ \E i, j \in 1..Len(Edges) :
        /\ i # j
        /\ Edges[i] = Edges[j]
        /\ Edges[i].To \in DOMAIN Nodes
        /\ Nodes[Edges[i].To].Type = NodeView


--------------------------------------------------------------------------
(* package aioutput: the report summary.                                   *)

\* The number of issues of `detected` with the severity `severity`, as the
\* switch in the loop over `detected` counts them.
RECURSIVE CountSeverity(_, _)
CountSeverity(detected_, severity) ==
    IF detected_ = <<>> THEN 0
    ELSE (IF Head(detected_).Severity = severity THEN 1 ELSE 0)
         + CountSeverity(Tail(detected_), severity)

CountType(nodes, type) == Cardinality({id \in DOMAIN nodes : nodes[id].Type = type})

Summary(causes, states, views, edges, found, critical, high, score, status) ==
    [TotalCauses |-> causes, TotalStateChanges |-> states,
     TotalViewUpdates |-> views, TotalEdges |-> edges, IssuesFound |-> found,
     CriticalIssues |-> critical, HighIssues |-> high,
     PerformanceScore |-> score, HealthStatus |-> status]

\* A summary whose score is not floored at 0.
calculateSummaryNoFloor(nodes, edges, detected_) ==
    LET critical == CountSeverity(detected_, SeverityCritical)
        high == CountSeverity(detected_, SeverityHigh)
        score == 100 - critical * 25 - high * 10
                     - (Len(detected_) - critical - high) * 3
        status == IF score < 50 THEN "critical"
                  ELSE IF score < 75 THEN "warning" ELSE "good"
    IN  Summary(CountType(nodes, NodeCause), CountType(nodes, NodeState),
                CountType(nodes, NodeView), Len(edges), Len(detected_),
                critical, high, score, status)

\* A summary whose status bands exclude their lower ends.
calculateSummaryAbove(nodes, edges, detected_) ==
    LET critical == CountSeverity(detected_, SeverityCritical)
        high == CountSeverity(detected_, SeverityHigh)
        raw == 100 - critical * 25 - high * 10
                   - (Len(detected_) - critical - high) * 3
        score == IF raw < 0 THEN 0 ELSE raw
        status == IF score <= 50 THEN "critical"
                  ELSE IF score <= 75 THEN "warning" ELSE "good"
    IN  Summary(CountType(nodes, NodeCause), CountType(nodes, NodeState),
                CountType(nodes, NodeView), Len(edges), Len(detected_),
                critical, high, score, status)

\* Generator.calculateSummary.
calculateSummary(nodes, edges, detected_) ==
    LET critical == CountSeverity(detected_, SeverityCritical)
        high == CountSeverity(detected_, SeverityHigh)
        raw == 100 - critical * 25 - high * 10
                   - (Len(detected_) - critical - high) * 3
        score == IF raw < 0 THEN 0 ELSE raw
        status == IF score < 50 THEN "critical"
                  ELSE IF score < 75 THEN "warning" ELSE "good"
    IN  Summary(CountType(nodes, NodeCause), CountType(nodes, NodeState),
                CountType(nodes, NodeView), Len(edges), Len(detected_),
                critical, high, score, status)

--------------------------------------------------------------------------
(* Specification of the summary: calculateSummary applied to lists of      *)
(* issues of every severity, as TestPerformanceScoreWithIssues builds      *)
(* them, over a new graph and over the graph of a detector test.           *)

MaxIssues == 5

\* The severities of the issues listed; "" is an issue whose severity was
\* never set.
SeverityInputs ==
    {SeverityCritical, SeverityHigh, SeverityMedium, SeverityLow, SeverityInfo, ""}

InitSummary ==
    /\ \E g \in {New, ScenarioC} : Nodes = g.Nodes /\ Edges = g.Edges
    /\ thresholds = DefaultThresholds
    /\ detected = <<>>
    /\ issues = <<>>
    /\ pc = "summary"
    /\ trace = <<>>
    /\ NoCommand

\* One more issue in the list the test hands to calculateSummary.
AppendIssueStep ==
    \E severity \in SeverityInputs :
        /\ pc = "summary"
        /\ Len(issues) < MaxIssues
        /\ issues' = Append(issues,
               WithID(Issue(IssueExcessiveRerender, severity, <<>>, <<>>, 0, 0, 0),
                      nextID(Len(issues))))
        /\ summary' = NoSummary
        /\ UNCHANGED <<Nodes, Edges, thresholds, detected, pc, trace, input,
                       walkPos, stats, err, correlator, output, exitCode>>

CalculateSummaryStep ==
    /\ pc = "summary"
    /\ summary' = calculateSummary(Nodes, Edges, issues)
    /\ UNCHANGED <<Nodes, Edges, thresholds, detected, issues, pc, trace, input,
                   walkPos, stats, err, correlator, output, exitCode>>

NextSummary == AppendIssueStep \/ CalculateSummaryStep

SpecSummary == InitSummary /\ [][NextSummary]_vars

--------------------------------------------------------------------------
(* C11: the performance score of a list of issues is                       *)
(* max(0, 100 - 25 * criticals - 10 * highs - 3 * all others); it lies in  *)
(* 0..100, and the list with one more issue of any severity never scores   *)
(* higher.                                                                 *)

\* The number of issues of the list with a severity of S.
NumberOf(S) == Cardinality({i \in 1..Len(issues) : issues[i].Severity \in S})

ExpectedScore ==
    LET raw == 100 - 25 * NumberOf({SeverityCritical}) - 10 * NumberOf({SeverityHigh})
                   - 3 * NumberOf(SeverityInputs \ {SeverityCritical, SeverityHigh})
    IN  IF raw > 0 THEN raw ELSE 0

--------------------------------------------------------------------------
(* C12: the health status is "good" exactly when the score is at least    *)
(* 75, "warning" exactly when it is at least 50 and below 75, "critical"   *)
(* exactly when it is below 50: no issue gives 100/good, one critical      *)
(* 75/good, two criticals 50/warning, three criticals 25/critical, two     *)
(* highs 80/good.                                                          *)

SeveritiesAre(ss) ==
    /\ Len(issues) = Len(ss)
    /\ \A i \in 1..Len(ss) : issues[i].Severity = ss[i]

ScoreAndStatus(score, status) ==
    summary.PerformanceScore = score /\ summary.HealthStatus = status

C12_HealthStatus ==
    (pc = "summary" /\ summary # NoSummary) =>
        /\ summary.HealthStatus = "good" <=> summary.PerformanceScore >= 75
        /\ summary.HealthStatus = "warning" <=>
              (summary.PerformanceScore >= 50 /\ summary.PerformanceScore < 75)
        /\ summary.HealthStatus = "critical" <=> summary.PerformanceScore < 50
        /\ SeveritiesAre(<<>>) => ScoreAndStatus(100, "good")
        /\ SeveritiesAre(<<SeverityCritical>>) => ScoreAndStatus(75, "good")
        /\ SeveritiesAre(<<SeverityCritical, SeverityCritical>>)
              => ScoreAndStatus(50, "warning")
        /\ SeveritiesAre(<<SeverityCritical, SeverityCritical, SeverityCritical>>)
              => ScoreAndStatus(25, "critical")
        /\ SeveritiesAre(<<SeverityHigh, SeverityHigh>>) => ScoreAndStatus(80, "good")

\* Two criticals: the score is 50, the lower end of "warning".
C12_Witness ==
    /\ pc = "summary"
    /\ summary # NoSummary
    /\ SeveritiesAre(<<SeverityCritical, SeverityCritical>>)
    /\ ScoreAndStatus(50, "warning")

--------------------------------------------------------------------------
(* package analyze: strings, the keyword patterns and synthesized ids.     *)

\* s[i] as a string of one character, "" outside the string.
CharAt(s, i) == IF i >= 1 /\ i <= Len(s) THEN SubSeq(s, i, i) ELSE ""

\* The characters `\s` matches and strings.TrimSpace strips.
Whitespace == {" ", "\t", "\n", "\r", "\f"}

\* The characters `\w` matches: [0-9A-Za-z_].
WordChars == "0123456789ABCDEFGHIJKLMNOPQRSTUVWXYZ_abcdefghijklmnopqrstuvwxyz"

WordCharSet == {SubSeq(WordChars, k, k) : k \in 1..Len(WordChars)}

IsWordChar(c) == c \in WordCharSet

\* `\b` between s[i-1] and s[i].
WordBoundary(s, i) == IsWordChar(CharAt(s, i - 1)) # IsWordChar(CharAt(s, i))

\* The literal `lit` occurs in s at position i.
LiteralAt(s, lit, i) ==
    i >= 1 /\ i + Len(lit) - 1 <= Len(s) /\ SubSeq(s, i, i + Len(lit) - 1) = lit

\* The positions just after a match of `\s+` that starts at position i.
AfterSpaces(s, i) ==
    {j \in (i + 1)..(Len(s) + 1) : \A k \in i..(j - 1) : CharAt(s, k) \in Whitespace}

\* The patterns are case-insensitive: each is matched against the
\* lower-case form l of the string.  a\s+b matches somewhere in l.
MatchSpaced(l, a, b) ==
    \E i \in 1..Len(l) :
        /\ LiteralAt(l, a, i)
        /\ \E j \in AfterSpaces(l, i + Len(a)) : LiteralAt(l, b, j)

\* \bw\b matches somewhere in l.
MatchWord(l, w) ==
    \E i \in 1..Len(l) :
        /\ LiteralAt(l, w, i)
        /\ WordBoundary(l, i)
        /\ WordBoundary(l, i + Len(w))

\* lit matches somewhere in l.
MatchLiteral(l, lit) == Contains(l, lit)

\* reState.MatchString(s)
reState(s) ==
    LET l == ToLower(s)
    IN  \/ MatchSpaced(l, "state", "change")
        \/ MatchWord(l, "state")
        \/ MatchLiteral(l, "@state")
        \/ MatchLiteral(l, "@observedobject")
        \/ MatchLiteral(l, "@stateobject")
        \/ MatchWord(l, "environment")

\* reView.MatchString(s)
reView(s) ==
    LET l == ToLower(s)
    IN  \/ \E i \in 1..Len(l) :
              /\ LiteralAt(l, "view", i)
              /\ \E j \in AfterSpaces(l, i + 4) :
                    /\ LiteralAt(l, "body", j)
                    /\ \E k \in AfterSpaces(l, j + 4) : LiteralAt(l, "update", k)
        \/ MatchSpaced(l, "view", "update")
        \/ \E i \in 1..Len(l) : LiteralAt(l, "body()", i) /\ WordBoundary(l, i)
        \/ MatchWord(l, "view")

CauseKeywords ==
    {"gesture", "tap", "button", "timer", "notification", "publisher",
     "async", "network", "animation", "scene"}

\* reCause.MatchString(s)
reCause(s) ==
    LET l == ToLower(s)
    IN  \E w \in CauseKeywords : MatchLiteral(l, w)

\* classify
classify(kind, label) ==
    LET k == ToLower(kind)
        l == ToLower(label)
    IN  IF Contains(k, "state") \/ reState(l) THEN NodeState
        ELSE IF Contains(k, "view") \/ reView(l) THEN NodeView
        ELSE IF Contains(k, "cause") \/ reCause(l) THEN NodeCause
        ELSE NodeOther

LabelMax == 120

\* trim, on strings of one-byte characters; "..." stands for the one
\* character U+2026 the code appends.
trim(s, max) == IF Len(s) <= max THEN s ELSE SubSeq(s, 1, max - 1) \o "..."

\* strings.TrimSpace
RECURSIVE TrimSpace(_)
TrimSpace(s) ==
    IF s = "" THEN s
    ELSE IF CharAt(s, 1) \in Whitespace THEN TrimSpace(SubSeq(s, 2, Len(s)))
    ELSE IF CharAt(s, Len(s)) \in Whitespace THEN TrimSpace(SubSeq(s, 1, Len(s) - 1))
    ELSE s

\* Runs of characters whose code points are consecutive, each with the
\* code point of its first character.
CodeRuns ==
    {<<" !", 32>>, <<"#$%&'()", 35>>, <<"+,-./", 43>>, <<Digits, 48>>,
     <<":;<=>?@", 58>>, <<UpperCase, 65>>, <<"[", 91>>, <<"]^_", 93>>,
     <<LowerCase, 97>>, <<"{|}~", 123>>}

\* The characters of the runs, each with its code point.
CodePoints ==
    [c \in UNION {{SubSeq(r[1], k, k) : k \in 1..Len(r[1])} : r \in CodeRuns} |->
        LET run == CHOOSE r \in CodeRuns : \E k \in 1..Len(r[1]) : SubSeq(r[1], k, k) = c
        IN  run[2] - 1 + (CHOOSE k \in 1..Len(run[1]) : SubSeq(run[1], k, k) = c)]

\* int(r) for a character of the runs.
CodePoint(c) == CodePoints[c]

\* 2^30: the hash is kept in 31 bits, h & 0x7fffffff.
TwoTo30 == 1073741824

\* (2 * h) & 0x7fffffff for h in 0..2^31-1, no intermediate value above
\* 2^31-1.
DoubleMasked(h) == IF h >= TwoTo30 THEN (h - TwoTo30) + (h - TwoTo30) ELSE h + h

\* (a - b) & 0x7fffffff for a, b in 0..2^31-1.
SubMasked(a, b) == IF a >= b THEN a - b ELSE ((a - b) + TwoTo30) + TwoTo30

\* (a + r) & 0x7fffffff for a in 0..2^31-1 and a code point r.
AddMasked(a, r) ==
    IF a < TwoTo30 THEN a + r
    ELSE IF (a - TwoTo30) + r >= TwoTo30 THEN ((a - TwoTo30) + r) - TwoTo30
    ELSE a + r

\* (h*31 + int(r)) & 0x7fffffff, with h*31 computed as 32*h - h.
HashStep(h, r) ==
    AddMasked(
        SubMasked(DoubleMasked(DoubleMasked(DoubleMasked(DoubleMasked(DoubleMasked(h))))), h),
        r)

\* The loop over the characters of the label, h being the hash so far;
\* each iteration is evaluated before the next one starts.
RECURSIVE HashFrom(_, _)
HashFrom(h, label) ==
    IF label = "" THEN h
    ELSE CHOOSE result \in
             {HashFrom(next, rest) :
                 next \in {HashStep(h, CodePoint(CharAt(label, 1)))},
                 rest \in {SubSeq(label, 2, Len(label))}} : TRUE

\* idOrHash
idOrHash(id, label) == IF id # "" THEN id ELSE "n" \o Itoa(HashFrom(0, label))

--------------------------------------------------------------------------
(* package analyze: the parsers.  A decoded JSON value is a record with    *)
(* one field naming its type: [str |-> s], [num |-> n], [arr |-> seq],     *)
(* [obj |-> map]; Nil is a key that is absent.  A parser returns the       *)
(* graph it leaves, the graph-store calls it made (each with the index     *)
(* `at` and the content `src` of the line or record that caused it) and    *)
(* its error, "nil" when none.                                             *)

Nil == [nil |-> TRUE]
JStr(s) == [str |-> s]
JNum(n) == [num |-> n]
JArr(a) == [arr |-> a]
JObj(m) == [obj |-> m]

\* m[key] for a decoded object m
Lookup(m, key) == IF key \in DOMAIN m THEN m[key] ELSE Nil

\* asString
asString(v, def) == IF "str" \in DOMAIN v THEN v.str ELSE def

\* asInt, for numbers that are integers
asInt(v, def) == IF "num" \in DOMAIN v THEN v.num ELSE def

Parsed(nodes, edges, calls, error) ==
    [Nodes |-> nodes, Edges |-> edges, calls |-> calls, err |-> error]

UpsertNodeAt(n, at, src) == [op |-> "UpsertNode", node |-> n, at |-> at, src |-> src]
AddEdgeAt(e, at, src) == [op |-> "AddEdge", edge |-> e, at |-> at, src |-> src]

\* parseJSON, the loop over nodesRaw from its i-th element on.
RECURSIVE parseNodesRaw(_, _, _)
parseNodesRaw(nodesRaw, i, p) ==
    IF i > Len(nodesRaw) THEN p
    ELSE IF "obj" \notin DOMAIN nodesRaw[i] THEN parseNodesRaw(nodesRaw, i + 1, p)
    ELSE LET m == nodesRaw[i].obj
             id == asString(Lookup(m, "id"), asString(Lookup(m, "uuid"), ""))
             label == asString(Lookup(m, "label"), asString(Lookup(m, "title"), ""))
             kind == ToLower(asString(Lookup(m, "type"), asString(Lookup(m, "kind"), "")))
             count == asInt(Lookup(m, "count"), asInt(Lookup(m, "updates"), 0))
             n == Node(idOrHash(id, label), label, classify(kind, label), count)
         IN  parseNodesRaw(nodesRaw, i + 1,
                 Parsed(UpsertNode(p.Nodes, n), p.Edges,
                        Append(p.calls, UpsertNodeAt(n, i, m)), p.err))

\* parseJSON, the loop over edgesRaw from its i-th element on.
RECURSIVE parseEdgesRaw(_, _, _)
parseEdgesRaw(edgesRaw, i, p) ==
    IF i > Len(edgesRaw) THEN p
    ELSE IF "obj" \notin DOMAIN edgesRaw[i] THEN parseEdgesRaw(edgesRaw, i + 1, p)
    ELSE LET m == edgesRaw[i].obj
             from == asString(Lookup(m, "from"), asString(Lookup(m, "source"), ""))
             to == asString(Lookup(m, "to"), asString(Lookup(m, "target"), ""))
             label == asString(Lookup(m, "label"), asString(Lookup(m, "reason"), ""))
             e == Edge(from, to, label)
         IN  IF from = "" \/ to = "" THEN parseEdgesRaw(edgesRaw, i + 1, p)
             ELSE parseEdgesRaw(edgesRaw, i + 1,
                      Parsed(p.Nodes, AddEdge(p.Edges, e),
                             Append(p.calls, AddEdgeAt(e, i, m)), p.err))

\* A scan loop in which the first State line uses the pending cause up.
RECURSIVE scanLinesConsume(_, _, _, _)
scanLinesConsume(lines, longAt, i, st) ==
    IF i = longAt THEN [st EXCEPT !.err = "bufio.Scanner: token too long"]
    ELSE IF i > Len(lines) THEN st
    ELSE LET line == TrimSpace(lines[i])
             id == idOrHash("", line)
         IN  IF line = "" THEN scanLinesConsume(lines, longAt, i + 1, st)
             ELSE IF reState(line) THEN
                 LET n == Node(id, trim(line, LabelMax), NodeState, 0)
                     e == Edge(st.lastCause, id, "causes")
                     up == Append(st.calls, UpsertNodeAt(n, i, lines[i]))
                 IN  scanLinesConsume(lines, longAt, i + 1,
                        [st EXCEPT !.Nodes = UpsertNode(st.Nodes, n),
                                   !.lastState = id,
                                   !.lastCause = "",
                                   !.Edges = IF st.lastCause # "" THEN AddEdge(st.Edges, e)
                                             ELSE st.Edges,
                                   !.calls = IF st.lastCause # ""
                                             THEN Append(up, AddEdgeAt(e, i, lines[i]))
                                             ELSE up])
             ELSE IF reView(line) THEN
                 LET n == Node(id, trim(line, LabelMax), NodeView, 0)
                     e == Edge(st.lastState, id, "updates")
                     up == Append(st.calls, UpsertNodeAt(n, i, lines[i]))
                 IN  scanLinesConsume(lines, longAt, i + 1,
                        [st EXCEPT !.Nodes = UpsertNode(st.Nodes, n),
                                   !.Edges = IF st.lastState # "" THEN AddEdge(st.Edges, e)
                                             ELSE st.Edges,
                                   !.calls = IF st.lastState # ""
                                             THEN Append(up, AddEdgeAt(e, i, lines[i]))
                                             ELSE up])
             ELSE IF reCause(line) THEN
                 LET n == Node(id, trim(line, LabelMax), NodeCause, 0)
                 IN  scanLinesConsume(lines, longAt, i + 1,
                        [st EXCEPT !.Nodes = UpsertNode(st.Nodes, n),
                                   !.lastCause = id,
                                   !.calls = Append(st.calls, UpsertNodeAt(n, i, lines[i]))])
             ELSE scanLinesConsume(lines, longAt, i + 1, st)

\* parseTextReader, from the i-th line on: st holds the graph, the calls
\* and lastCause, lastState.  The scanner stops with an error at the line
\* `longAt`, a line longer than its buffer (0: there is none).
RECURSIVE scanLines(_, _, _, _)
scanLines(lines, longAt, i, st) ==
    IF i = longAt THEN [st EXCEPT !.err = "bufio.Scanner: token too long"]
    ELSE IF i > Len(lines) THEN st
    ELSE LET line == TrimSpace(lines[i])
             id == idOrHash("", line)
         IN  IF line = "" THEN scanLines(lines, longAt, i + 1, st)
             ELSE IF reState(line) THEN
                 LET n == Node(id, trim(line, LabelMax), NodeState, 0)
                     e == Edge(st.lastCause, id, "causes")
                     up == Append(st.calls, UpsertNodeAt(n, i, lines[i]))
                 IN  scanLines(lines, longAt, i + 1,
                        [st EXCEPT !.Nodes = UpsertNode(st.Nodes, n),
                                   !.lastState = id,
                                   !.Edges = IF st.lastCause # "" THEN AddEdge(st.Edges, e)
                                             ELSE st.Edges,
                                   !.calls = IF st.lastCause # ""
                                             THEN Append(up, AddEdgeAt(e, i, lines[i]))
                                             ELSE up])
             ELSE IF reView(line) THEN
                 LET n == Node(id, trim(line, LabelMax), NodeView, 0)
                     e == Edge(st.lastState, id, "updates")
                     up == Append(st.calls, UpsertNodeAt(n, i, lines[i]))
                 IN  scanLines(lines, longAt, i + 1,
                        [st EXCEPT !.Nodes = UpsertNode(st.Nodes, n),
                                   !.Edges = IF st.lastState # "" THEN AddEdge(st.Edges, e)
                                             ELSE st.Edges,
                                   !.calls = IF st.lastState # ""
                                             THEN Append(up, AddEdgeAt(e, i, lines[i]))
                                             ELSE up])
             ELSE IF reCause(line) THEN
                 LET n == Node(id, trim(line, LabelMax), NodeCause, 0)
                 IN  scanLines(lines, longAt, i + 1,
                        [st EXCEPT !.Nodes = UpsertNode(st.Nodes, n),
                                   !.lastCause = id,
                                   !.calls = Append(st.calls, UpsertNodeAt(n, i, lines[i]))])
             ELSE scanLines(lines, longAt, i + 1, st)

\* A scan loop that tries every pattern family on every line, one after
\* the other, instead of stopping at the first that matches.
RECURSIVE scanLinesEach(_, _, _, _)
scanLinesEach(lines, longAt, i, st) ==
    IF i = longAt THEN [st EXCEPT !.err = "bufio.Scanner: token too long"]
    ELSE IF i > Len(lines) THEN st
    ELSE LET line == TrimSpace(lines[i])
             id == idOrHash("", line)
             upsert(s, type) ==
                 LET n == Node(id, trim(line, LabelMax), type, 0)
                 IN  [s EXCEPT !.Nodes = UpsertNode(s.Nodes, n),
                               !.calls = Append(s.calls, UpsertNodeAt(n, i, lines[i]))]
             link(s, from, label) ==
                 IF from = "" THEN s
                 ELSE [s EXCEPT !.Edges = AddEdge(s.Edges, Edge(from, id, label)),
                                !.calls = Append(s.calls,
                                              AddEdgeAt(Edge(from, id, label), i, lines[i]))]
             s1 == IF reState(line)
                   THEN [link(upsert(st, NodeState), st.lastCause, "causes")
                            EXCEPT !.lastState = id]
                   ELSE st
             s2 == IF reView(line) THEN link(upsert(s1, NodeView), s1.lastState, "updates")
                   ELSE s1
             s3 == IF reCause(line) THEN [upsert(s2, NodeCause) EXCEPT !.lastCause = id]
                   ELSE s2
         IN  IF line = "" THEN scanLinesEach(lines, longAt, i + 1, st)
             ELSE scanLinesEach(lines, longAt, i + 1, s3)

parseTextReaderEach(lines, longAt, nodes, edges) ==
    LET st == scanLinesEach(lines, longAt, 1,
                  [Nodes |-> nodes, Edges |-> edges, calls |-> <<>>, err |-> "nil",
                   lastCause |-> "", lastState |-> ""])
    IN  Parsed(st.Nodes, st.Edges, st.calls, st.err)

\* parseTextReader
parseTextReader(lines, longAt, nodes, edges) ==
    LET st == scanLines(lines, longAt, 1,
                  [Nodes |-> nodes, Edges |-> edges, calls |-> <<>>, err |-> "nil",
                   lastCause |-> "", lastState |-> ""])
    IN  Parsed(st.Nodes, st.Edges, st.calls, st.err)

\* A file of the input: its name, whether it can be read, what
\* json.Unmarshal makes of its bytes ("invalid": an error), its lines and
\* the index of a line too long for the scanner (0: none).
File(name, readable, json, lines, longAt) ==
    [name |-> name, isDir |-> FALSE, err |-> "nil", readable |-> readable,
     json |-> json, lines |-> lines, longAt |-> longAt]

\* A directory the walk enters, and an entry WalkDir reports an error for.
Dir(name) == [name |-> name, isDir |-> TRUE, err |-> "nil"]
Unreadable(name) == [name |-> name, isDir |-> TRUE, err |-> "readdir: permission denied"]

\* parseJSON
parseJSON(file, nodes, edges) ==
    IF ~file.readable THEN Parsed(nodes, edges, <<>>, "open: permission denied")
    ELSE IF "obj" \notin DOMAIN file.json
    THEN Parsed(nodes, edges, <<>>, "json: cannot unmarshal")
    ELSE LET obj == file.json.obj
             hasNodes == "arr" \in DOMAIN Lookup(obj, "nodes")
             hasEdges == "arr" \in DOMAIN Lookup(obj, "edges")
         IN  IF hasNodes /\ hasEdges
             THEN parseEdgesRaw(obj["edges"].arr, 1,
                      parseNodesRaw(obj["nodes"].arr, 1, Parsed(nodes, edges, <<>>, "nil")))
             ELSE parseTextReader(file.lines, file.longAt, nodes, edges)

\* parseTextLike
parseTextLike(file, nodes, edges) ==
    IF ~file.readable THEN Parsed(nodes, edges, <<>>, "open: permission denied")
    ELSE parseTextReader(file.lines, file.longAt, nodes, edges)

\* filepath.Ext of a name without separators: from its last dot on.
RECURSIVE Ext(_)
Ext(name) ==
    IF ~Contains(name, ".") THEN ""
    ELSE IF Contains(SubSeq(name, 2, Len(name)), ".") THEN Ext(SubSeq(name, 2, Len(name)))
    ELSE SubSeq(name, (CHOOSE k \in 1..Len(name) : SubSeq(name, k, k) = "."), Len(name))

\* A callback that returns the error of the file it could not parse.
walkFnAbort(entry, nodes, edges, st) ==
    LET same(ret) == [Nodes |-> nodes, Edges |-> edges, stats |-> st,
                      calls |-> <<>>, ret |-> ret]
        ext == ToLower(Ext(entry.name))
        counted(p) ==
            [Nodes |-> p.Nodes, Edges |-> p.Edges, calls |-> p.calls, ret |-> p.err,
             stats |-> [FilesParsed |-> st.FilesParsed + 1, Hints |-> st.Hints]]
    IN  IF entry.err # "nil" THEN same(entry.err)
        ELSE IF entry.isDir THEN same("nil")
        ELSE IF ext = ".json" THEN counted(parseJSON(entry, nodes, edges))
        ELSE IF ext \in {".xml", ".csv", ".txt"}
        THEN counted(parseTextLike(entry, nodes, edges))
        ELSE same("nil")

\* The callback parseDirectory hands to filepath.WalkDir, for one entry: a
\* directory, a file, or an entry WalkDir could not read (its error is
\* passed in).  `ret` is what the callback returns.
walkFn(entry, nodes, edges, st) ==
    LET same(ret) == [Nodes |-> nodes, Edges |-> edges, stats |-> st,
                      calls |-> <<>>, ret |-> ret]
        ext == ToLower(Ext(entry.name))
        counted(p, what) ==
            [Nodes |-> p.Nodes, Edges |-> p.Edges, calls |-> p.calls, ret |-> "nil",
             stats |-> [FilesParsed |-> st.FilesParsed + 1,
                        Hints |-> IF p.err # "nil"
                                  THEN Append(st.Hints,
                                         what \o " parse skipped " \o entry.name
                                              \o ": " \o p.err)
                                  ELSE st.Hints]]
    IN  IF entry.err # "nil" THEN same(entry.err)
        ELSE IF entry.isDir THEN same("nil")
        ELSE IF ext = ".json" THEN counted(parseJSON(entry, nodes, edges), "JSON")
        ELSE IF ext \in {".xml", ".csv", ".txt"}
        THEN counted(parseTextLike(entry, nodes, edges), "text")
        ELSE same("nil")

--------------------------------------------------------------------------
(* package analyze and cmd/swiftuice: ParseTrace, Summarize and the        *)
(* analyze and summarize commands, as steps.  `input` holds what the       *)
(* command was given and what the file system holds:                       *)
(*   cmd       "analyze" or "summarize"                                    *)
(*   flagsOK   fs.Parse accepted the arguments                             *)
(*   in        the -in flag                                                *)
(*   exists    os.Stat(in) succeeds;  isDir  it is a directory             *)
(*   exportOK  export.ExportTrace succeeds (used for a .trace file)        *)
(*   entries   what WalkDir visits under the input directory, in order     *)
(*   source    the -source flag;  sourceReadable, swiftFiles  what         *)
(*             indexing that root finds                                    *)
(*   writable  the output files that can be written                        *)
(* pc runs through "start", "stat", "walk", "render", "returned",          *)
(* "output" and "exit".                                                    *)

ErrNoData == "no parseable cause-and-effect data"

HasSuffix(s, suffix) ==
    Len(s) >= Len(suffix) /\ SubSeq(s, Len(s) - Len(suffix) + 1, Len(s)) = suffix

NilCorrelator == [isNil |-> TRUE, swiftFiles |-> 0]

\* The exit code of a command whose ingestion failed with ErrNoData
\* treated like any other error.
ingestExitGeneric(error) == 1

\* cmdAnalyze and cmdSummarize: the exit code for an ingestion error.
ingestExit(error) == IF error = ErrNoData THEN 3 ELSE 1

\* A no-data check that looks at the nodes only.
noDataNodesOnly(nodes, edges) == Cardinality(DOMAIN nodes) = 0

\* ParseTrace and Summarize: len(g.Nodes) == 0 || len(g.Edges) == 0
noData(nodes, edges) == Cardinality(DOMAIN nodes) = 0 \/ Len(edges) = 0

\* An indexing that fails on a root it cannot read.
indexSwiftFilesStrict(in) ==
    [swiftFiles |-> IF in.sourceReadable THEN in.swiftFiles ELSE 0,
     err |-> IF in.sourceReadable THEN "nil" ELSE "lstat: no such file or directory"]

\* Correlator.indexSwiftFiles: the callback skips every error, so the walk
\* returns nil whatever the root is.
indexSwiftFiles(in) ==
    [swiftFiles |-> IF in.sourceReadable THEN in.swiftFiles ELSE 0, err |-> "nil"]

\* NewCorrelator
NewCorrelator(in) ==
    LET indexed == indexSwiftFiles(in)
    IN  IF indexed.err # "nil" THEN [c |-> NilCorrelator, err |-> indexed.err]
        ELSE [c |-> [isNil |-> FALSE, swiftFiles |-> indexed.swiftFiles], err |-> "nil"]

\* NewGenerator: the correlator it keeps; an error of NewCorrelator is
\* dropped and the correlator left nil.
NewGenerator(in) ==
    IF in.source = "" THEN NilCorrelator
    ELSE IF NewCorrelator(in).err # "nil" THEN NilCorrelator
    ELSE NewCorrelator(in).c

\* cmdSummarize and cmdAnalyze up to the call of the ingestion: the flags.
CmdStart ==
    /\ pc = "start"
    /\ IF ~input.flagsOK \/ input.in = ""
       THEN pc' = "exit" /\ exitCode' = 2
       ELSE pc' = "stat" /\ UNCHANGED exitCode
    /\ UNCHANGED <<Nodes, Edges, thresholds, detected, issues, trace, input,
                   walkPos, stats, err, correlator, summary, output>>

\* ParseTrace and Summarize up to the call of parseDirectory: os.Stat, the
\* export of a .trace file, and the new graph.
StatStep ==
    /\ pc = "stat"
    /\ IF ~input.exists
       THEN /\ err' = "stat: no such file or directory"
            /\ pc' = "returned"
            /\ UNCHANGED <<Nodes, Edges, walkPos>>
       ELSE IF ~input.isDir /\ HasSuffix(ToLower(input.in), ".trace") /\ ~input.exportOK
       THEN /\ err' = "xctrace export failed"
            /\ pc' = "returned"
            /\ UNCHANGED <<Nodes, Edges, walkPos>>
       ELSE /\ Nodes' = New.Nodes
            /\ Edges' = New.Edges
            /\ walkPos' = 1
            /\ pc' = "walk"
            /\ UNCHANGED err
    /\ UNCHANGED <<thresholds, detected, issues, trace, input, stats,
                   correlator, summary, output, exitCode>>

\* parseDirectory: one call of the WalkDir callback.  An error it returns
\* ends the walk and is what ParseTrace and Summarize return.
WalkFnStep ==
    /\ pc = "walk"
    /\ walkPos <= Len(input.entries)
    /\ LET r == walkFn(input.entries[walkPos], Nodes, Edges, stats)
       IN  /\ Nodes' = r.Nodes
           /\ Edges' = r.Edges
           /\ stats' = r.stats
           /\ trace' = trace \o r.calls
           /\ IF r.ret = "nil"
              THEN walkPos' = walkPos + 1 /\ UNCHANGED <<pc, err>>
              ELSE err' = r.ret /\ pc' = "returned" /\ UNCHANGED walkPos
    /\ UNCHANGED <<thresholds, detected, issues, input, correlator, summary,
                   output, exitCode>>

\* ParseTrace and Summarize when the walk has returned nil: the no-data
\* check.  ParseTrace then returns the graph, Summarize goes on to write.
CheckStep ==
    /\ pc = "walk"
    /\ walkPos > Len(input.entries)
    /\ IF noData(Nodes, Edges)
       THEN err' = ErrNoData /\ pc' = "returned"
       ELSE /\ UNCHANGED err
            /\ pc' = IF input.cmd = "summarize" THEN "render" ELSE "returned"
    /\ UNCHANGED <<Nodes, Edges, thresholds, detected, issues, trace, input,
                   walkPos, stats, correlator, summary, output, exitCode>>

\* Summarize: the summary and the .dot file are rendered and written, the
\* first failed write being returned.
WriteSummaryStep ==
    /\ pc = "render"
    /\ IF "summary" \notin input.writable
       THEN err' = "write summary: permission denied" /\ UNCHANGED output
       ELSE IF "dot" \notin input.writable
       THEN err' = "write dot: permission denied" /\ output' = {"summary"}
       ELSE UNCHANGED err /\ output' = {"summary", "dot"}
    /\ pc' = "returned"
    /\ UNCHANGED <<Nodes, Edges, thresholds, detected, issues, trace, input,
                   walkPos, stats, correlator, summary, exitCode>>

\* cmdAnalyze and cmdSummarize when the ingestion returned an error.
ExitOnErrorStep ==
    /\ pc = "returned"
    /\ err # "nil"
    /\ exitCode' = ingestExit(err)
    /\ pc' = "exit"
    /\ UNCHANGED <<Nodes, Edges, thresholds, detected, issues, trace, input,
                   walkPos, stats, err, correlator, summary, output>>

\* cmdSummarize when Summarize returned nil: the paths are printed.
SummarizeDoneStep ==
    /\ pc = "returned"
    /\ err = "nil"
    /\ input.cmd = "summarize"
    /\ exitCode' = 0
    /\ pc' = "exit"
    /\ UNCHANGED <<Nodes, Edges, thresholds, detected, issues, trace, input,
                   walkPos, stats, err, correlator, summary, output>>

\* cmdAnalyze when ParseTrace returned a graph: NewGenerator, then
\* Generate, which detects the issues and calculates the summary.
GenerateStep ==
    /\ pc = "returned"
    /\ err = "nil"
    /\ input.cmd = "analyze"
    /\ correlator' = NewGenerator(input)
    /\ thresholds' = DefaultThresholds
    /\ \E d \in DetectAppend(Nodes, Edges, DefaultThresholds) :
         \E r \in SortSlice(d) :
            /\ detected' = d
            /\ issues' = r
            /\ summary' = calculateSummary(Nodes, Edges, r)
    /\ pc' = "output"
    /\ UNCHANGED <<Nodes, Edges, trace, input, walkPos, stats, err, output, exitCode>>

\* cmdAnalyze: the report is printed or written; a failure to encode or
\* to write it exits with 1.
OutputStep ==
    /\ pc = "output"
    /\ IF "report" \in input.writable
       THEN output' = {"report"} /\ exitCode' = 0
       ELSE UNCHANGED output /\ exitCode' = 1
    /\ pc' = "exit"
    /\ UNCHANGED <<Nodes, Edges, thresholds, detected, issues, trace, input,
                   walkPos, stats, err, correlator, summary>>

NextCommand ==
    \/ CmdStart
    \/ StatStep
    \/ WalkFnStep
    \/ CheckStep
    \/ WriteSummaryStep
    \/ ExitOnErrorStep
    \/ SummarizeDoneStep
    \/ GenerateStep
    \/ OutputStep

\* A command starts on the inputs of `inputs`.
InitCommand(inputs) ==
    /\ input \in inputs
    /\ Nodes = New.Nodes
    /\ Edges = New.Edges
    /\ thresholds = DefaultThresholds
    /\ detected = <<>>
    /\ issues = <<>>
    /\ pc = "start"
    /\ trace = <<>>
    /\ walkPos = 0
    /\ stats = [FilesParsed |-> 0, Hints |-> <<>>]
    /\ err = "nil"
    /\ correlator = NilCorrelator
    /\ summary = NoSummary
    /\ output = {}
    /\ exitCode = -1

--------------------------------------------------------------------------
(* Specification of the commands: analyze and summarize on export          *)
(* directories with well-formed, malformed, unreadable and unrecognised    *)
(* files, on a missing path, on a .trace file and on a single file.        *)

Input(cmd, flagsOK, in, exists, isDir, exportOK, entries, source,
      sourceReadable, swiftFiles, writable) ==
    [cmd |-> cmd, flagsOK |-> flagsOK, in |-> in, exists |-> exists,
     isDir |-> isDir, exportOK |-> exportOK, entries |-> entries,
     source |-> source, sourceReadable |-> sourceReadable,
     swiftFiles |-> swiftFiles, writable |-> writable]

JNode(id, label, type, count) ==
    JObj([id |-> JStr(id), label |-> JStr(label), type |-> JStr(type),
          count |-> JNum(count)])

JEdge(from, to) == JObj([from |-> JStr(from), to |-> JStr(to)])

\* {"nodes": [...], "edges": [...]}
JGraph(nodes, edges) == JObj([nodes |-> JArr(nodes), edges |-> JArr(edges)])

\* The graph of TestDetect_ExcessiveRerender with its cause, as an export.
GoodJSON ==
    File("graph.json", TRUE,
         JGraph(<<JNode("c1", "Button tap", "cause", 0),
                  JNode("s1", "@State counter", "state", 0),
                  JNode("v1", "ItemRow", "view", 50)>>,
                <<JEdge("c1", "s1"), JEdge("s1", "v1")>>),
         <<>>, 0)

\* Nodes and no edge: one edge record has no target, one is not an object.
NodesOnlyJSON ==
    File("nodes.JSON", TRUE,
         JGraph(<<JNode("v9", "DetailView", "view", 12), JStr("stray")>>,
                <<JObj([from |-> JStr("s1")]), JNum(7)>>),
         <<>>, 0)

BadJSON == File("bad.json", TRUE, JStr("invalid"), <<"{ nodes: [">>, 0)

\* A JSON object that is no graph: its text goes to the line parser.
StringsJSON ==
    File("strings.json", TRUE, JObj([title |-> JStr("timer tick")]),
         <<"{", "  title: timer tick,", "  note: @State counter", "}">>, 0)

LockedText == File("locked.txt", FALSE, Nil, <<>>, 0)

TraceText ==
    File("trace.txt", TRUE, Nil,
         <<"Button tap", "", "  @State counter changed ", "ContentView update">>, 0)

\* A table whose second line is longer than the scanner's buffer.
BigCSV == File("big.csv", TRUE, Nil, <<"gesture began", "", "view update">>, 2)

Notes == File("notes.md", TRUE, Nil, <<"@State counter">>, 0)

Root == Dir("exported")

Directories ==
    {<<Root>>,
     <<Root, GoodJSON>>,
     <<Root, BadJSON, GoodJSON>>,
     <<Root, LockedText, TraceText>>,
     <<Root, NodesOnlyJSON>>,
     <<Root, Unreadable("private"), GoodJSON>>,
     <<Root, GoodJSON, Unreadable("private")>>,
     <<Root, Notes>>,
     <<Root, BigCSV, TraceText>>,
     <<Root, BadJSON, LockedText, BigCSV>>,
     <<Root, Dir("sub"), StringsJSON>>,
     <<Root, TraceText, StringsJSON, Notes>>}

\* What -in names: nothing, a path that does not exist, a .trace file
\* whose export fails or succeeds, a single file, an export directory.
Targets ==
    {[flagsOK |-> FALSE, in |-> "exported", exists |-> TRUE, isDir |-> TRUE,
      exportOK |-> TRUE, entries |-> <<Root, GoodJSON>>],
     [flagsOK |-> TRUE, in |-> "", exists |-> FALSE, isDir |-> FALSE,
      exportOK |-> TRUE, entries |-> <<>>],
     [flagsOK |-> TRUE, in |-> "gone", exists |-> FALSE, isDir |-> FALSE,
      exportOK |-> TRUE, entries |-> <<>>],
     [flagsOK |-> TRUE, in |-> "run.TRACE", exists |-> TRUE, isDir |-> FALSE,
      exportOK |-> FALSE, entries |-> <<>>],
     [flagsOK |-> TRUE, in |-> "run.trace", exists |-> TRUE, isDir |-> FALSE,
      exportOK |-> TRUE, entries |-> <<Root, TraceText>>],
     [flagsOK |-> TRUE, in |-> "graph.json", exists |-> TRUE, isDir |-> FALSE,
      exportOK |-> TRUE, entries |-> <<GoodJSON>>]}
    \cup {[flagsOK |-> TRUE, in |-> "exported", exists |-> TRUE, isDir |-> TRUE,
           exportOK |-> TRUE, entries |-> d] : d \in Directories}

\* The -source flag: not given, a root that cannot be read, a project.
Sources ==
    {[source |-> "", sourceReadable |-> FALSE, swiftFiles |-> 0],
     [source |-> "./Gone", sourceReadable |-> FALSE, swiftFiles |-> 0],
     [source |-> "./MyApp", sourceReadable |-> TRUE, swiftFiles |-> 2]}

CommandInputs ==
    {Input("analyze", t.flagsOK, t.in, t.exists, t.isDir, t.exportOK, t.entries,
           s.source, s.sourceReadable, s.swiftFiles, w) :
        t \in Targets, s \in Sources, w \in {{"report"}, {}}}
    \cup {Input("summarize", t.flagsOK, t.in, t.exists, t.isDir, t.exportOK,
                t.entries, "", FALSE, 0, w) :
             t \in Targets, w \in {{"summary", "dot"}, {"summary"}, {}}}

InitCmd == InitCommand(CommandInputs)

SpecCommand == InitCmd /\ [][NextCommand]_vars

--------------------------------------------------------------------------
(* C13: ParseTrace and Summarize return ErrNoData exactly when the walk    *)
(* over the input completed and the graph it built has no node or no       *)
(* edge; a graph they return has at least one node and one edge.           *)

\* The inputs that are .trace files, which are exported first.
TraceFiles == {"run.TRACE", "run.trace"}

\* The walk over the input ran to its end: the input exists, its export
\* (if it is a .trace file) succeeded and WalkDir met no error.
WalkCompletes ==
    /\ input.exists
    /\ (input.in \in TraceFiles /\ ~input.isDir) => input.exportOK
    /\ \A k \in 1..Len(input.entries) : input.entries[k].err = "nil"

\* The ingestion has decided what it returns and nothing was written yet.
IngestionReturned ==
    \/ pc = "returned" /\ output = {} /\ err \notin
          {"write summary: permission denied", "write dot: permission denied"}
    \/ pc = "render"

C13_NoDataError ==
    IngestionReturned =>
        /\ err = ErrNoData <=>
              (WalkCompletes /\ (Cardinality(DOMAIN Nodes) = 0 \/ Len(Edges) = 0))
        /\ err = "nil" => (Cardinality(DOMAIN Nodes) >= 1 /\ Len(Edges) >= 1)

\* A directory whose only file has nodes and no usable edge: no data.
C13_Witness ==
    /\ pc = "returned"
    /\ input.entries = <<Root, NodesOnlyJSON>>
    /\ Cardinality(DOMAIN Nodes) = 1
    /\ Len(Edges) = 0
    /\ stats.FilesParsed = 1
    /\ err = ErrNoData

--------------------------------------------------------------------------
(* C14: analyze and summarize exit with 3 exactly when the ingestion       *)
(* failed with ErrNoData, with 1 for every other failure of ingestion,     *)
(* generation or output, with 2 when -in is missing, and with 0 only when  *)
(* the report or the summary was produced.                                 *)

Produced ==
    IF input.cmd = "analyze" THEN output = {"report"}
    ELSE output = {"summary", "dot"}

C14_ExitCodes ==
    pc = "exit" =>
        /\ exitCode \in {0, 1, 2, 3}
        /\ exitCode = 3 <=> err = "no parseable cause-and-effect data"
        /\ (err # "nil" /\ err # "no parseable cause-and-effect data") => exitCode = 1
        /\ (input.flagsOK /\ input.in # "" /\ err = "nil" /\ ~Produced) => exitCode = 1
        /\ input.in = "" => exitCode = 2
        /\ exitCode = 0 => Produced

\* Both commands have ended on an input without data.
C14_Witness ==
    /\ pc = "exit"
    /\ exitCode = 3
    /\ input.cmd = "summarize"
    /\ input.entries = <<Root, Notes>>
    /\ walkPos = 3
    /\ output = {}

--------------------------------------------------------------------------
(* C15: in parseDirectory a file that cannot be read or decoded never      *)
(* ends the walk and never becomes the error returned: each such file      *)
(* adds exactly one hint, the files after it are still parsed, and         *)
(* FilesParsed counts every visited file with a recognised extension.      *)

\* The files of the inputs that cannot be read or decoded.
FailingFiles == {"bad.json", "locked.txt", "big.csv"}

\* The files of the inputs with the extension .json, .xml, .csv or .txt.
RecognisedFiles ==
    {"graph.json", "nodes.JSON", "bad.json", "strings.json", "locked.txt",
     "trace.txt", "big.csv"}

\* The entries the walk has visited.
Visited == {k \in 1..Len(input.entries) : k < walkPos}

IsFile(k) == ~input.entries[k].isDir /\ input.entries[k].err = "nil"

C15_State ==
    walkPos >= 1 =>
        /\ Len(stats.Hints) =
              Cardinality({k \in Visited : input.entries[k].name \in FailingFiles})
        /\ stats.FilesParsed =
              Cardinality({k \in Visited : input.entries[k].name \in RecognisedFiles})
        /\ \A k \in 1..Len(input.entries) :
              (IsFile(k) /\ input.entries[k].name \in FailingFiles)
                 => (err # "open: permission denied"
                     /\ err # "json: cannot unmarshal"
                     /\ err # "bufio.Scanner: token too long")

\* The callback on a file goes on to the next entry.
C15_Step ==
    (pc = "walk" /\ walkPos <= Len(input.entries) /\ IsFile(walkPos))
        => (pc' = "walk" /\ walkPos' = walkPos + 1 /\ err' = "nil")

C15_WalkGoesOn == []C15_State /\ [][C15_Step]_vars

\* After a file that does not decode the walk parsed the next one.
C15_Witness ==
    /\ input.entries = <<Root, BadJSON, GoodJSON>>
    /\ walkPos = 4
    /\ Len(stats.Hints) = 1
    /\ stats.FilesParsed = 2
    /\ "v1" \in DOMAIN Nodes
    /\ Len(Edges) = 2
    /\ err = "nil"

--------------------------------------------------------------------------
(* C16 as claimed: a missing input path and an unreadable source root are  *)
(* both fatal: an error before any file is parsed, and no report.          *)

MissingInput == input.flagsOK /\ input.in # "" /\ ~input.exists

UnreadableSource ==
    input.flagsOK /\ input.in # "" /\ input.source # "" /\ ~input.sourceReadable

NothingParsed == walkPos = 0 /\ stats.FilesParsed = 0 /\ trace = <<>>

C16_BothFatal ==
    (pc = "exit" /\ (MissingInput \/ UnreadableSource)) =>
        (exitCode # 0 /\ NothingParsed /\ output = {})

(* C16 as the code has it: a missing input path is fatal, surfaced before  *)
(* any file is parsed, and nothing is produced.  An unreadable source     *)
(* root is not fatal: the root is indexed only after the input was         *)
(* parsed, indexing skips every error, and the report is produced without  *)
(* source files.                                                           *)
C16_MissingInputFatal ==
    /\ (pc \in {"returned", "exit"} /\ MissingInput) =>
          (err = "stat: no such file or directory" /\ NothingParsed /\ output = {}
           /\ (pc = "exit" => exitCode = 1))
    /\ (UnreadableSource /\ pc \in {"start", "stat", "walk", "returned"}) =>
          correlator.isNil
    /\ (UnreadableSource /\ pc \in {"output", "exit"} /\ err = "nil") =>
          (~correlator.isNil /\ correlator.swiftFiles = 0)
    /\ (UnreadableSource /\ pc = "exit" /\ err = "nil" /\ "report" \in input.writable) =>
          (exitCode = 0 /\ output = {"report"})

\* The report was produced although the source root cannot be read.
C16_Witness ==
    /\ pc = "exit"
    /\ UnreadableSource
    /\ input.entries = <<Root, GoodJSON>>
    /\ exitCode = 0
    /\ output = {"report"}
    /\ stats.FilesParsed = 1
    /\ summary.PerformanceScore = 75


--------------------------------------------------------------------------
(* parseDirectory over files of the two formats, one visit of the WalkDir  *)
(* callback per step.  `input` holds the entry visited last, and every     *)
(* graph-store call is recorded with the name of its file and the number   *)
(* of the visit (stats.FilesParsed after it).                              *)

MaxFiles == 3

TypedJSON ==
    File("typed.json", TRUE,
         JGraph(<<JObj([id |-> JStr("v1"), label |-> JStr("@State counter"),
                        type |-> JStr("view")]),
                  JObj([id |-> JStr("s1"), label |-> JStr("ContentView update"),
                        type |-> JStr("State")]),
                  JObj([id |-> JStr("c1"), label |-> JStr("body() called"),
                        kind |-> JStr("cause")]),
                  JNode("v2", "ItemRow", "view", 50)>>,
                <<JEdge("c1", "s1"), JEdge("s1", "v2")>>),
         <<>>, 0)

UntypedJSON ==
    File("untyped.json", TRUE,
         JGraph(<<JObj([label |-> JStr("Button tap")]),
                  JObj([label |-> JStr("@State counter changed")]),
                  JObj([title |-> JStr("ContentView update"), updates |-> JNum(7)]),
                  JObj([label |-> JStr("plain")])>>,
                <<>>),
         <<>>, 0)

IdsJSON ==
    File("ids.json", TRUE,
         JGraph(<<JObj([id |-> JStr("n97"), label |-> JStr("Settings"),
                        type |-> JStr("view")]),
                  JObj([label |-> JStr("a")])>>,
                <<JEdge("n97", "n97")>>),
         <<>>, 0)

AgainJSON ==
    File("again.json", TRUE,
         JGraph(<<JObj([label |-> JStr("Button tap")]),
                  JObj([title |-> JStr("Button tap"), count |-> JNum(3)])>>,
                <<>>),
         <<>>, 0)

UnknownJSON ==
    File("unknown.json", TRUE,
         JGraph(<<JObj([id |-> JStr("x1"), label |-> JStr("button tap"),
                        type |-> JStr("timer")])>>,
                <<>>),
         <<>>, 0)

MixedText ==
    File("mixed.txt", TRUE, Nil,
         <<"state change in ContentView update", "View update after button tap",
           "hello world">>, 0)

\* Causes, states and views with a line without a match and a blank line
\* between them.
PendingText ==
    File("pending.txt", TRUE, Nil,
         <<"ContentView update", "Button tap", "timer fired", "hello world", "",
           "  @State counter changed ", "state change in ContentView update",
           "ContentView update", "Button tap">>, 0)

LogCSV == File("log.csv", TRUE, Nil, <<"Button tap updates state", "a", "   ">>, 0)

NoneXML == File("none.xml", TRUE, Nil, <<"hello world", "">>, 0)

JSONFiles == {TypedJSON, UntypedJSON, IdsJSON, AgainJSON, UnknownJSON}
TextFiles == {PendingText, MixedText, LogCSV, NoneXML}

InitParse ==
    /\ input = Root
    /\ Nodes = New.Nodes
    /\ Edges = New.Edges
    /\ thresholds = DefaultThresholds
    /\ detected = <<>>
    /\ issues = <<>>
    /\ pc = "walk"
    /\ trace = <<>>
    /\ walkPos = 0
    /\ stats = [FilesParsed |-> 0, Hints |-> <<>>]
    /\ err = "nil"
    /\ correlator = NilCorrelator
    /\ summary = NoSummary
    /\ output = {}
    /\ exitCode = -1

\* One visit of the callback, for a file of `files`.
VisitStep(files) ==
    \E f \in files :
        /\ pc = "walk"
        /\ stats.FilesParsed < MaxFiles
        /\ LET r == walkFn(f, Nodes, Edges, stats)
           IN  /\ Nodes' = r.Nodes
               /\ Edges' = r.Edges
               /\ stats' = r.stats
               /\ trace' = trace \o [k \in 1..Len(r.calls) |->
                                        [file |-> f.name,
                                         visit |-> r.stats.FilesParsed,
                                         call |-> r.calls[k]]]
        /\ input' = f
        /\ UNCHANGED <<thresholds, detected, issues, pc, walkPos, err, correlator,
                       summary, output, exitCode>>

VisitJSONStep == VisitStep(JSONFiles)
VisitTextStep == VisitStep(TextFiles)

NextParse == VisitJSONStep \/ VisitTextStep

SpecParse == InitParse /\ [][NextParse]_vars

--------------------------------------------------------------------------
(* C17: structured input, the kind of a node record.                       *)

\* The kind each known type name stands for, as the records spell it.
KnownKinds ==
    ("cause" :> NodeCause) @@ ("state" :> NodeState) @@ ("view" :> NodeView)
    @@ ("Cause" :> NodeCause) @@ ("State" :> NodeState) @@ ("View" :> NodeView)

\* The type field of a node record as written, "" when it has none.
TypeField(m) ==
    IF "type" \in DOMAIN m THEN m.type.str
    ELSE IF "kind" \in DOMAIN m THEN m.kind.str
    ELSE ""

\* What the label keywords say about the labels of the records: state over
\* view over cause over Other.
LabelKinds ==
    ("Button tap" :> NodeCause) @@ ("@State counter changed" :> NodeState)
    @@ ("ContentView update" :> NodeView) @@ ("plain" :> NodeOther)
    @@ ("a" :> NodeOther) @@ ("@State counter" :> NodeState)
    @@ ("body() called" :> NodeView) @@ ("ItemRow" :> NodeOther)
    @@ ("Settings" :> NodeOther) @@ ("button tap" :> NodeCause)

StructuredNames == {f.name : f \in JSONFiles}

\* The node records parsed so far, each with the node it was upserted as.
NodeRecords ==
    {trace[i].call : i \in {k \in DOMAIN trace :
                              /\ trace[k].file \in StructuredNames
                              /\ trace[k].call.op = "UpsertNode"}}

\* C17: a node record whose type field names a known kind gets exactly
\* that kind whatever its label says, and the label keywords decide the kind
\* of a record without a type field.
C17_TypeFieldDecides ==
    \A c \in NodeRecords :
        /\ TypeField(c.src) \in DOMAIN KnownKinds
              => c.node.Type = KnownKinds[TypeField(c.src)]
        /\ TypeField(c.src) = "" => c.node.Type = LabelKinds[c.node.Label]

--------------------------------------------------------------------------
(* C18: node ids synthesized from labels.                                  *)

\* The positions in the history of the UpsertNode calls made so far.
Upserts == {k \in DOMAIN trace : trace[k].call.op = "UpsertNode"}

\* The call comes from a node record that carries an id of its own.
HasExplicitId(t) ==
    /\ t.file \in StructuredNames
    /\ ("id" \in DOMAIN t.call.src \/ "uuid" \in DOMAIN t.call.src)

\* The label an id-less record or line is known by.
LabelOf(t) ==
    IF t.file \notin StructuredNames THEN t.call.node.Label
    ELSE IF "label" \in DOMAIN t.call.src THEN t.call.src.label.str
    ELSE IF "title" \in DOMAIN t.call.src THEN t.call.src.title.str
    ELSE ""

\* Id-less records and lines with the same label get the same id.
SameLabelSameId ==
    \A i, j \in Upserts :
        LET a == trace[i]
            b == trace[j]
        IN  (~HasExplicitId(a) /\ ~HasExplicitId(b) /\ LabelOf(a) = LabelOf(b))
                => a.call.node.ID = b.call.node.ID

\* C18: an id synthesized from a label depends on the label only, and it
\* never equals an explicit id of the input.
C18_SynthesizedIds ==
    /\ SameLabelSameId
    /\ \A i, j \in Upserts :
           (~HasExplicitId(trace[i]) /\ HasExplicitId(trace[j]))
               => trace[i].call.node.ID # trace[j].call.node.ID

--------------------------------------------------------------------------
(* C19: the free-text parser, line by line.                                *)

\* The pattern families each line of the text files matches.
Matches ==
    ("  @State counter changed " :> {"state"})
    @@ ("state change in ContentView update" :> {"state", "view"})
    @@ ("Button tap updates state" :> {"state", "cause"})
    @@ ("ContentView update" :> {"view"})
    @@ ("View update after button tap" :> {"view", "cause"})
    @@ ("Button tap" :> {"cause"}) @@ ("timer fired" :> {"cause"})
    @@ ("hello world" :> {}) @@ ("a" :> {}) @@ ("" :> {}) @@ ("   " :> {})

\* The kind of the first family that matches, in the order state, view,
\* cause.
Winner(line) ==
    IF "state" \in Matches[line] THEN NodeState
    ELSE IF "view" \in Matches[line] THEN NodeView
    ELSE NodeCause

TextNames == {f.name : f \in TextFiles}

\* The calls of the visit made last that line i of the file caused.
CallsOfLine(i, op) ==
    {k \in DOMAIN trace :
        /\ trace[k].visit = stats.FilesParsed
        /\ trace[k].call.at = i
        /\ trace[k].call.op = op}

C19_State ==
    input.name \in TextNames =>
        \A i \in DOMAIN input.lines :
            /\ Cardinality(CallsOfLine(i, "UpsertNode")) <= 1
            /\ Cardinality(CallsOfLine(i, "AddEdge")) <= 1
            /\ IF Matches[input.lines[i]] = {}
               THEN CallsOfLine(i, "UpsertNode") = {} /\ CallsOfLine(i, "AddEdge") = {}
               ELSE \E k \in CallsOfLine(i, "UpsertNode") :
                        trace[k].call.node.Type = Winner(input.lines[i])

C19_Step ==
    (/\ input'.name \in TextNames
     /\ \A i \in DOMAIN input'.lines : Matches[input'.lines[i]] = {})
        => (Nodes' = Nodes /\ Edges' = Edges)

\* C19: each line of a text file upserts at most one node and adds at most
\* one edge; the node has the kind of the first family the line matches,
\* in the order state, view, cause; a line that matches no family causes no
\* call, and a file of such lines leaves the graph as it was.
C19_FirstMatchWins == []C19_State /\ [][C19_Step]_vars

\* A text file was parsed whose first line matches the state and the view
\* patterns and became a State node, once, and whose last line matched
\* nothing.
C19_Witness ==
    /\ input.name = "mixed.txt"
    /\ \E k \in CallsOfLine(1, "UpsertNode") : trace[k].call.node.Type = NodeState
    /\ Matches[input.lines[1]] = {"state", "view"}
    /\ CallsOfLine(3, "UpsertNode") = {}
    /\ CallsOfLine(2, "AddEdge") # {}


--------------------------------------------------------------------------
(* C20: the entries of AffectedNodes.                                      *)

\* C20: every entry of the AffectedNodes of a reported issue is the id of a
\* node of the graph Detect was given.
C20_AffectedNodesAreIds ==
    \A i \in 1..Len(issues) :
        \A k \in 1..Len(issues[i].AffectedNodes) :
            issues[i].AffectedNodes[k] \in DOMAIN Nodes

--------------------------------------------------------------------------
(* C21: the severities each detector emits.  All six detectors fire on     *)
(* the graphs of this specification, the deep-chain detector also on a     *)
(* chain longer than twice the depth limit.                                *)

SeverityNodeInputs ==
    {Node("v1", "View1", NodeView, c) : c \in {10, 21, 31}}
    \cup {Node("view", "view", NodeView, 7)}

SeverityEdgeInputs ==
    {Edge("s1", "v1", ""), Edge("s1", "v2", ""), Edge("s1", "v3", ""),
     Edge("view", "ghost", ""), Edge("a", "view", "")}

InitSeverity ==
    InitDetect({ScenarioMixed, ScenarioChain, ScenarioB},
               {DefaultThresholds, Thresholds(3, 2, 20)})

NextSeverity == NextDetect(SeverityNodeInputs, SeverityEdgeInputs)

SpecSeverity == InitSeverity /\ [][NextSeverity]_vars

\* The severity ranges of the README's table "What Gets Detected".
DocumentedRange ==
    (IssueExcessiveRerender :> {SeverityMedium, SeverityHigh, SeverityCritical})
    @@ (IssueCascadingUpdate :> {SeverityMedium, SeverityHigh})
    @@ (IssueTimerCascade :> {SeverityMedium, SeverityHigh})
    @@ (IssueDeepDependencyChain :> {SeverityLow, SeverityMedium})
    @@ (IssueWholeObjectPassing :> {SeverityLow, SeverityMedium})

\* The same table with the range of deep_dependency_chain medium to high.
EmittedRange ==
    [DocumentedRange EXCEPT ![IssueDeepDependencyChain] = {SeverityMedium, SeverityHigh}]

InRange(range) ==
    \A i \in 1..Len(issues) :
        issues[i].Type \in DOMAIN range => issues[i].Severity \in range[issues[i].Type]

--------------------------------------------------------------------------
(* package correlation.  Confidence is in hundredths.  A SourceMatch here  *)
(* has the fields the matching decides; RelativePath and CodeSnippet are   *)
(* display text.  A source file is a record of its path, whether it can    *)
(* be opened, and its lines.                                               *)

IsUpper(c) == c \in DOMAIN LowerMap
IsDigit(c) == c \in {SubSeq(Digits, k, k) : k \in 1..Len(Digits)}

\* The position just after the run of word characters that starts at i.
RunEnd(s, i) ==
    CHOOSE e \in (i + 1)..(Len(s) + 1) :
        /\ \A k \in i..(e - 1) : IsWordChar(CharAt(s, k))
        /\ ~IsWordChar(CharAt(s, e))

\* The first position from i on that holds no white space.
SkipSpaces(s, i) ==
    CHOOSE j \in i..(Len(s) + 1) :
        /\ \A k \in i..(j - 1) : CharAt(s, k) \in Whitespace
        /\ CharAt(s, j) \notin Whitespace

\* The positions after a match of `\s*` that starts at position i.
AfterOptionalSpaces(s, i) == {i} \cup AfterSpaces(s, i)

\* The maximal runs of word characters of s from position i on, in order:
\* the substrings that lie between two `\b`.
RECURSIVE Tokens(_, _)
Tokens(s, i) ==
    IF i > Len(s) THEN <<>>
    ELSE IF ~IsWordChar(CharAt(s, i)) THEN Tokens(s, i + 1)
    ELSE <<SubSeq(s, i, RunEnd(s, i) - 1)>> \o Tokens(s, RunEnd(s, i))

\* isCommonWord
CommonWords ==
    {"the", "a", "an", "and", "or", "for", "in", "to", "of", "with",
     "var", "let", "func", "struct", "class", "view", "body", "some", "any",
     "true", "false", "nil", "update", "change", "trigger", "cause"}

isCommonWord(s) == ToLower(s) \in CommonWords

\* dedupe
RECURSIVE dedupeFrom(_, _)
dedupeFrom(strs, seen) ==
    IF strs = <<>> THEN <<>>
    ELSE IF Head(strs) \in seen THEN dedupeFrom(Tail(strs), seen)
    ELSE <<Head(strs)>> \o dedupeFrom(Tail(strs), seen \cup {Head(strs)})

dedupe(strs) == dedupeFrom(strs, {})

PropertyWrappers ==
    {"State", "ObservedObject", "StateObject", "EnvironmentObject", "Binding",
     "Environment"}

\* propPattern at position i of the label: the name it captures, "" when
\* it does not match there.
\*   @(?:State|...)\s+(?:var\s+)?(\w+)
propCapture(label, i) ==
    LET kinds == {K \in PropertyWrappers :
                    /\ LiteralAt(label, "@" \o K, i)
                    /\ CharAt(label, i + 1 + Len(K)) \in Whitespace}
    IN  IF kinds = {} THEN ""
        ELSE LET K == CHOOSE k \in kinds : TRUE
                 p == SkipSpaces(label, i + 1 + Len(K))
             IN  IF ~IsWordChar(CharAt(label, p)) THEN ""
                 ELSE LET e == RunEnd(label, p)
                          q == SkipSpaces(label, e)
                      IN  IF /\ SubSeq(label, p, e - 1) = "var"
                             /\ q > e
                             /\ IsWordChar(CharAt(label, q))
                          THEN SubSeq(label, q, RunEnd(label, q) - 1)
                          ELSE SubSeq(label, p, e - 1)

\* propPattern.FindAllStringSubmatch: the captured names, in order.
RECURSIVE propMatches(_, _)
propMatches(label, i) ==
    IF i > Len(label) THEN <<>>
    ELSE IF propCapture(label, i) = "" THEN propMatches(label, i + 1)
    ELSE <<propCapture(label, i)>> \o propMatches(label, i + 1)

\* extractSymbols: the capitalized identifiers without underscore
\* (viewPattern), the names after property wrappers (propPattern) and the
\* identifiers that are no common words (identPattern), deduplicated.
extractSymbols(label) ==
    LET tokens == Tokens(label, 1)
        views == SelectSeq(tokens, LAMBDA t :
                     IsUpper(CharAt(t, 1)) /\ ~Contains(t, "_"))
        idents == SelectSeq(tokens, LAMBDA t :
                     ~IsDigit(CharAt(t, 1)) /\ ~isCommonWord(t))
    IN  dedupe(views \o propMatches(label, 1) \o idents)

\* The positions just after a match of `struct\s+symbol` in the line.
StructEnds(line, symbol) ==
    {j + Len(symbol) : j \in
        {j \in 1..Len(line) :
            /\ LiteralAt(line, symbol, j)
            /\ \E i \in 1..Len(line) :
                  LiteralAt(line, "struct", i) /\ j \in AfterSpaces(line, i + 6)}}

\* (?:\w+,\s*)*View matches at position p.
RECURSIVE ProtocolList(_, _)
ProtocolList(line, p) ==
    \/ LiteralAt(line, "View", p)
    \/ /\ IsWordChar(CharAt(line, p))
       /\ CharAt(line, RunEnd(line, p)) = ","
       /\ \E q \in AfterOptionalSpaces(line, RunEnd(line, p) + 1) : ProtocolList(line, q)

\* matchViewDeclaration: the confidence, 0 when it does not match.
matchViewDeclaration(line, symbol) ==
    IF \E e \in StructEnds(line, symbol) :
          \E c \in AfterOptionalSpaces(line, e) :
              /\ CharAt(line, c) = ":"
              /\ \E p \in AfterOptionalSpaces(line, c + 1) : ProtocolList(line, p)
    THEN 95
    ELSE IF /\ \E e \in StructEnds(line, symbol) : WordBoundary(line, e)
            /\ Contains(ToLower(symbol), "view")
    THEN 85
    ELSE 0

\* matchViewBody
matchViewBody(line, symbol) ==
    IF Contains(line, "var body") /\ Contains(line, "View") THEN 50 ELSE 0

\* @(?:w1|w2)\s+(?:private\s+)?var\s+symbol\b matches somewhere in the line.
WrapperDeclaration(line, symbol, wrappers) ==
    LET varAt(v) ==
            /\ LiteralAt(line, "var", v)
            /\ \E s \in AfterSpaces(line, v + 3) :
                  LiteralAt(line, symbol, s) /\ WordBoundary(line, s + Len(symbol))
    IN  \E i \in 1..Len(line), K \in wrappers :
            /\ LiteralAt(line, "@" \o K, i)
            /\ \E a \in AfterSpaces(line, i + 1 + Len(K)) :
                  \/ varAt(a)
                  \/ /\ LiteralAt(line, "private", a)
                     /\ \E b \in AfterSpaces(line, a + 7) : varAt(b)

\* matchStateDeclaration
matchStateDeclaration(line, symbol) ==
    IF WrapperDeclaration(line, symbol, {"State", "StateObject"}) THEN 95
    ELSE IF WrapperDeclaration(line, symbol, {"ObservedObject", "EnvironmentObject"})
    THEN 90
    ELSE IF WrapperDeclaration(line, symbol, {"Binding"}) THEN 85
    ELSE 0

\* matchCausePattern
matchCausePattern(line, symbol) ==
    LET lowerLine == ToLower(line)
        lowerSymbol == ToLower(symbol)
    IN  IF Contains(lowerLine, "button") /\ Contains(lowerLine, lowerSymbol) THEN 85
        ELSE IF \E g \in {"ontapgesture", "ondraggesture", "onlongpressgesture",
                          "gesture"} : Contains(lowerLine, g)
        THEN 80
        ELSE IF Contains(lowerLine, "timer") THEN 75
        ELSE IF Contains(lowerLine, "notificationcenter") \/ Contains(lowerLine, "onreceive")
        THEN 70
        ELSE 0

SourceMatch(node, filePath, lineNum, matchType, confidence, symbol) ==
    [TraceNodeID |-> node.ID, TraceLabel |-> node.Label, NodeType |-> node.Type,
     FilePath |-> filePath, LineNumber |-> lineNum, MatchType |-> matchType,
     Confidence |-> confidence, MatchedSymbol |-> symbol]

\* matchLineForSymbol: no match (the nil pointer) is the empty sequence, a
\* match the sequence of that one match.
matchLineForSymbol(line, symbol, node, filePath, lineNum) ==
    IF ~Contains(line, symbol) THEN <<>>
    ELSE LET specific ==
                 IF node.Type = NodeView
                 THEN IF matchViewDeclaration(line, symbol) > 0
                      THEN <<matchViewDeclaration(line, symbol), "exact">>
                      ELSE IF matchViewBody(line, symbol) > 0
                      THEN <<matchViewBody(line, symbol), "inferred">>
                      ELSE <<0, "fuzzy">>
                 ELSE IF node.Type = NodeState
                 THEN IF matchStateDeclaration(line, symbol) > 0
                      THEN <<matchStateDeclaration(line, symbol), "exact">>
                      ELSE <<0, "fuzzy">>
                 ELSE IF node.Type = NodeCause
                 THEN IF matchCausePattern(line, symbol) > 0
                      THEN <<matchCausePattern(line, symbol), "exact">>
                      ELSE <<0, "fuzzy">>
                 ELSE IF Contains(line, symbol) THEN <<30, "fuzzy">>
                 ELSE <<0, "fuzzy">>
         IN  IF specific[1] < 30 THEN <<>>
             ELSE <<SourceMatch(node, filePath, lineNum, specific[2], specific[1], symbol)>>

\* A source file: its path, whether os.Open succeeds, and its lines.
SourceFile(path, readable, lines) == [path |-> path, readable |-> readable, lines |-> lines]

\* searchFileForSymbols: line by line, and for each line symbol by symbol.
searchFileForSymbols(file, node, symbols) ==
    IF ~file.readable THEN <<>>
    ELSE Flatten([lineNum \in 1..Len(file.lines) |->
             Flatten([k \in 1..Len(symbols) |->
                 matchLineForSymbol(file.lines[lineNum], symbols[k], node,
                                    file.path, lineNum)])])

\* sortByConfidence, the inner loop: matches[j] is swapped with matches[i]
\* when its confidence is higher.
RECURSIVE sortInner(_, _, _)
sortInner(matches, i, j) ==
    IF j > Len(matches) THEN matches
    ELSE IF matches[j].Confidence > matches[i].Confidence
    THEN sortInner([matches EXCEPT ![i] = matches[j], ![j] = matches[i]], i, j + 1)
    ELSE sortInner(matches, i, j + 1)

RECURSIVE sortOuter(_, _)
sortOuter(matches, i) ==
    IF i > Len(matches) THEN matches
    ELSE sortOuter(sortInner(matches, i, i + 1), i + 1)

\* sortByConfidence
sortByConfidence(matches) == sortOuter(matches, 1)

\* A lookup that scans the files again although the id is cached.
findMatchesForNodeRescan(swiftFiles, cache, node) ==
    LET symbols == extractSymbols(node.Label)
        matches == sortByConfidence(
                       Flatten([f \in 1..Len(swiftFiles) |->
                           searchFileForSymbols(swiftFiles[f], node, symbols)]))
    IN  [matches |-> matches,
         cache |-> [id \in DOMAIN cache \cup {node.ID} |->
                       IF id = node.ID THEN matches ELSE cache[id]],
         scanned |-> Len(swiftFiles)]

\* findMatchesForNode: the matches it returns, the cache it leaves and the
\* number of files it searched.
findMatchesForNode(swiftFiles, cache, node) ==
    IF node.ID \in DOMAIN cache
    THEN [matches |-> cache[node.ID], cache |-> cache, scanned |-> 0]
    ELSE LET symbols == extractSymbols(node.Label)
             matches == sortByConfidence(
                            Flatten([f \in 1..Len(swiftFiles) |->
                                searchFileForSymbols(swiftFiles[f], node, symbols)]))
         IN  [matches |-> matches,
              cache |-> [id \in DOMAIN cache \cup {node.ID} |->
                            IF id = node.ID THEN matches ELSE cache[id]],
              scanned |-> Len(swiftFiles)]

RECURSIVE SumOf(_)
SumOf(ns) == IF ns = <<>> THEN 0 ELSE Head(ns) + SumOf(Tail(ns))

\* Correlate, its loop over g.Nodes visiting the ids in the order `order`.
\* The keys of g.Nodes are the ids of its nodes and an iteration reads and
\* writes the cache entry of its own node only, so what an iteration
\* returns is what findMatchesForNode returns on the cache of the call:
\* one[id].  The matches are appended in the order of the visits.
correlateIn(one, order, cache) ==
    [matches |-> Flatten([i \in 1..Len(order) |-> one[order[i]].matches]),
     cache |-> [id \in DOMAIN cache \cup DOMAIN one |->
                  IF id \in DOMAIN one THEN one[id].cache[id] ELSE cache[id]],
     scanned |-> SumOf([i \in 1..Len(order) |-> one[order[i]].scanned])]

\* Correlate: one result for each order in which the range loop may visit
\* the map.
Correlate(swiftFiles, cache, nodes) ==
    LET one == CHOOSE f \in {[id \in DOMAIN nodes |->
                   findMatchesForNode(swiftFiles, cache, nodes[id])]} : TRUE
    IN  {correlateIn(one, order, cache) : order \in Orders(DOMAIN nodes)}

\* A BestMatch that returns the last of the cached matches.
BestMatchLast(cache, nodeID) ==
    IF nodeID \in DOMAIN cache /\ Len(cache[nodeID]) > 0
    THEN <<cache[nodeID][Len(cache[nodeID])]>>
    ELSE <<>>

\* BestMatch: the sequence of the match it points to, empty for nil.
BestMatch(cache, nodeID) ==
    IF nodeID \in DOMAIN cache /\ Len(cache[nodeID]) > 0
    THEN <<cache[nodeID][1]>>
    ELSE <<>>

(* One correlator over three source files, used for a graph that is       *)
(* mutated between the calls.  Here `correlator` holds the files the       *)
(* index found and the cache, and `trace` one entry per call:              *)
(*   op, node  the call and its argument (BestMatch: the node id only)     *)
(*   result    the matches returned                                        *)
(*   scanned   the number of files searched during the call                *)
(*   cached    the ids the cache held when the call was made               *)

MaxCorrelations == 2

\* The file of TestCorrelate.
ContentViewSwift ==
    SourceFile("ContentView.swift", TRUE,
        <<"struct ContentView: View {",
          "    @State var counter: Int = 0",
          "",
          "    var body: some View {",
          "        Button(tap) { counter += 1 }",
          "    }",
          "}">>)

ItemRowSwift ==
    SourceFile("ItemRow.swift", TRUE,
        <<"var body: some View { ItemRow() }",
          "var body: some View { ItemRow(item) }",
          "struct ItemRow: View {">>)

LockedSwift == SourceFile("Locked.swift", FALSE, <<"struct ContentView: View {">>)

SwiftFiles == <<ContentViewSwift, ItemRowSwift, LockedSwift>>

\* The view and the cause of the graph of TestCorrelate.
ScenarioCorrelate ==
    Built(<<Node("v1", "ContentView", NodeView, 0),
            Node("c1", "Button tap", NodeCause, 0)>>, <<>>)

\* The node the graph gains between two calls.
CorrelateNodeInputs == {Node("v2", "ItemRow", NodeView, 0)}

\* Nodes handed to CorrelateNode that are not the graph's: an id of the
\* graph with another label, the state of TestCorrelate, a node of a kind
\* without patterns of its own, and a label no line contains.
DetachedNodes ==
    {Node("v1", "ItemRow", NodeView, 0), Node("s1", "counter", NodeState, 0),
     Node("o1", "counter", NodeOther, 0), Node("x1", "zzz", NodeOther, 0)}

BestMatchInputs == {"v1", "s1", "c1", "v2", "o1", "x1", "nonexistent"}

InitCorrelate ==
    /\ Nodes = ScenarioCorrelate.Nodes
    /\ Edges = New.Edges
    /\ thresholds = DefaultThresholds
    /\ detected = <<>>
    /\ issues = <<>>
    /\ pc = "build"
    /\ trace = <<>>
    /\ input = "none"
    /\ walkPos = 0
    /\ stats = [FilesParsed |-> 0, Hints |-> <<>>]
    /\ err = "nil"
    /\ correlator = [isNil |-> FALSE, swiftFiles |-> SwiftFiles, cache |-> <<>>]
    /\ summary = NoSummary
    /\ output = {}
    /\ exitCode = -1

Called(op, node, r) ==
    /\ trace' = Append(trace, [op |-> op, node |-> node, result |-> r.matches,
                               scanned |-> r.scanned,
                               cached |-> DOMAIN correlator.cache])
    /\ correlator' = [correlator EXCEPT !.cache = r.cache]
    /\ UNCHANGED <<Nodes, Edges, thresholds, detected, issues, pc, input, walkPos,
                   stats, err, summary, output, exitCode>>

\* Correlator.CorrelateNode
CorrelateNodeStep ==
    /\ Len(trace) < MaxCorrelations
    /\ \E node \in DetachedNodes \cup {Nodes[id] : id \in DOMAIN Nodes} :
           Called("CorrelateNode", node,
                  findMatchesForNode(correlator.swiftFiles, correlator.cache, node))

\* Correlator.Correlate
CorrelateStep ==
    /\ Len(trace) < MaxCorrelations
    /\ \E r \in Correlate(correlator.swiftFiles, correlator.cache, Nodes) :
           Called("Correlate", Node("", "", NodeOther, 0), r)

\* Correlator.BestMatch
BestMatchStep ==
    /\ Len(trace) < MaxCorrelations
    /\ \E nodeID \in BestMatchInputs :
           Called("BestMatch", Node(nodeID, "", NodeOther, 0),
                  [matches |-> BestMatch(correlator.cache, nodeID),
                   cache |-> correlator.cache, scanned |-> 0])

\* The caller adds a node to the graph between two calls.
MutateGraphStep ==
    \E n \in CorrelateNodeInputs : UpsertNodeCall(n) /\ UNCHANGED trace

NextCorrelate == CorrelateNodeStep \/ CorrelateStep \/ BestMatchStep \/ MutateGraphStep

SpecCorrelate == InitCorrelate /\ [][NextCorrelate]_vars

\* The matches the cache holds for an id: none for an id it does not hold.
CachedMatches(cache, id) == IF id \in DOMAIN cache THEN cache[id] ELSE <<>>

\* No match a call returned, and no match the cache holds, is below 0.3.
C22_Floor ==
    /\ \A i \in 1..Len(trace) : \A k \in 1..Len(trace[i].result) :
           trace[i].result[k].Confidence >= 30
    /\ \A id \in DOMAIN correlator.cache : \A k \in 1..Len(correlator.cache[id]) :
           correlator.cache[id][k].Confidence >= 30

\* A BestMatch call returns none for an id the cache does not hold or holds
\* without a match, and otherwise one cached match of that id that no
\* cached match of that id exceeds in confidence.
C22_Step ==
    (Len(trace') = Len(trace) + 1 /\ trace'[Len(trace')].op = "BestMatch") =>
        LET e  == trace'[Len(trace')]
            ms == CachedMatches(correlator.cache, e.node.ID)
        IN  /\ e.node.ID \notin e.cached => e.result = <<>>
            /\ ms = <<>> => e.result = <<>>
            /\ ms # <<>> =>
                  /\ Len(e.result) = 1
                  /\ \E k \in 1..Len(ms) : ms[k] = e.result[1]
                  /\ \A k \in 1..Len(ms) : ms[k].Confidence <= e.result[1].Confidence

\* C22: bestMatch(nodeId) returns the cached match of highest confidence for
\* that node, and none when the node was never correlated on this correlator
\* or no match for it reached 0.3; no match returned by correlate or
\* bestMatch has a confidence below 0.3.
C22_BestMatch == []C22_Floor /\ [][C22_Step]_vars

\* BestMatch was asked for an id whose cached matches differ in confidence,
\* and returned one.
C22_Witness ==
    \E i \in 1..Len(trace) :
        /\ trace[i].op = "BestMatch"
        /\ trace[i].result # <<>>
        /\ \E k \in 1..Len(CachedMatches(correlator.cache, trace[i].node.ID)) :
               CachedMatches(correlator.cache, trace[i].node.ID)[k].Confidence
                   < trace[i].result[1].Confidence

\* The calls that computed the matches of their node: CorrelateNode on an
\* id the cache did not hold.
FreshCalls ==
    {i \in 1..Len(trace) :
        trace[i].op = "CorrelateNode" /\ trace[i].node.ID \notin trace[i].cached}

\* The match of the call at trace position i for a symbol on a line, if any.
MatchesAt(i, path, lineNum, symbol) ==
    {k \in 1..Len(trace[i].result) :
        /\ trace[i].result[k].FilePath = path
        /\ trace[i].result[k].LineNumber = lineNum
        /\ trace[i].result[k].MatchedSymbol = symbol}

\* C23: when a source line contains a candidate symbol of a node, a match
\* is produced whatever the kind of the node; for a node that is no View,
\* State or Cause its confidence is 0.3.
C23_ContainmentMatches ==
    \A i \in FreshCalls : \A f \in 1..Len(SwiftFiles) :
        SwiftFiles[f].readable =>
            \A lineNum \in 1..Len(SwiftFiles[f].lines) :
                LET symbols == extractSymbols(trace[i].node.Label)
                IN  \A s \in 1..Len(symbols) :
                        Contains(SwiftFiles[f].lines[lineNum], symbols[s]) =>
                            \E k \in MatchesAt(i, SwiftFiles[f].path, lineNum, symbols[s]) :
                                trace[i].node.Type \notin {NodeView, NodeState, NodeCause}
                                    => trace[i].result[k].Confidence = 30

\* The position of a file among the files of the correlator, and of a
\* symbol among the candidate symbols of a label.
FileIndex(path) == CHOOSE f \in 1..Len(SwiftFiles) : SwiftFiles[f].path = path

SymbolIndex(label, symbol) ==
    CHOOSE s \in 1..Len(extractSymbols(label)) : extractSymbols(label)[s] = symbol

\* Match a was found before match b: file index order, then line order,
\* then symbol order.
FoundBefore(a, b) ==
    LET fa == FileIndex(a.FilePath)
        fb == FileIndex(b.FilePath)
        sa == SymbolIndex(a.TraceLabel, a.MatchedSymbol)
        sb == SymbolIndex(b.TraceLabel, b.MatchedSymbol)
    IN  \/ fa < fb
        \/ fa = fb /\ a.LineNumber < b.LineNumber
        \/ fa = fb /\ a.LineNumber = b.LineNumber /\ sa < sb

\* The matches of a node are in non-increasing order of confidence.
C26_Descending ==
    \A i \in FreshCalls : \A k \in 1..(Len(trace[i].result) - 1) :
        trace[i].result[k].Confidence >= trace[i].result[k + 1].Confidence

\* C26: the matches computed for one node are ordered by non-increasing
\* confidence, and matches of equal confidence keep the order in which
\* they were found.
C26_StableDescending ==
    /\ C26_Descending
    /\ \A i \in FreshCalls : \A k \in 1..(Len(trace[i].result) - 1) :
           trace[i].result[k].Confidence = trace[i].result[k + 1].Confidence
               => FoundBefore(trace[i].result[k], trace[i].result[k + 1])

\* The consecutive sub-sequences of the matches a call returned.
Returned(e, from, n) == SubSeq(e.result, from, from + n - 1)

\* What a step that adds the call e to `trace` does to the cache.
\*   CorrelateNode on a cached id: the cached matches, no file searched,
\*     also when label or kind are not those of the cached matches;
\*   CorrelateNode on another id: every file searched for the node as it is
\*     now, and the result cached;
\*   Correlate: only the nodes whose ids are not cached are searched, the
\*     cached matches of the others are part of the result as they are.
C27_Call(e) ==
    /\ e.op = "CorrelateNode" /\ e.node.ID \in DOMAIN correlator.cache =>
          /\ e.result = correlator.cache[e.node.ID]
          /\ e.scanned = 0
          /\ DOMAIN correlator'.cache = DOMAIN correlator.cache
    /\ e.op = "CorrelateNode" /\ e.node.ID \notin DOMAIN correlator.cache =>
          /\ e.scanned = Len(correlator.swiftFiles)
          /\ \A k \in 1..Len(e.result) :
                 /\ e.result[k].TraceLabel = e.node.Label
                 /\ e.result[k].NodeType = e.node.Type
          /\ DOMAIN correlator'.cache = DOMAIN correlator.cache \cup {e.node.ID}
          /\ correlator'.cache[e.node.ID] = e.result
    /\ e.op = "Correlate" =>
          /\ e.scanned = Len(correlator.swiftFiles)
                           * Cardinality(DOMAIN Nodes \ DOMAIN correlator.cache)
          /\ DOMAIN correlator'.cache = DOMAIN correlator.cache \cup DOMAIN Nodes
          /\ \A id \in DOMAIN Nodes \cap DOMAIN correlator.cache :
                 \E from \in 1..(Len(e.result) + 1) :
                     Returned(e, from, Len(correlator.cache[id])) = correlator.cache[id]
          /\ \A id \in DOMAIN Nodes \ DOMAIN correlator.cache :
                 \A k \in 1..Len(correlator'.cache[id]) :
                     correlator'.cache[id][k].TraceLabel = Nodes[id].Label
    /\ e.op = "BestMatch" => DOMAIN correlator'.cache = DOMAIN correlator.cache

C27_Step ==
    /\ \A id \in DOMAIN correlator.cache :
           id \in DOMAIN correlator'.cache /\ correlator'.cache[id] = correlator.cache[id]
    /\ Len(trace') = Len(trace) + 1 => C27_Call(trace'[Len(trace')])

\* C27: on one correlator, across calls interleaved with graph mutations,
\* the first correlation of an id computes and caches its result, every
\* later one returns that cached result without searching a file, also
\* when label or kind have changed, ids not seen before are computed
\* fresh, and no cache entry is removed or overwritten.
C27_CachePerId == [][C27_Step]_vars

\* A node was correlated under an id that was cached with another label:
\* the call returned the matches of the earlier label.
C27_Witness ==
    \E i \in 1..Len(trace) :
        /\ trace[i].op = "CorrelateNode"
        /\ trace[i].node.ID \in trace[i].cached
        /\ trace[i].scanned = 0
        /\ trace[i].result # <<>>
        /\ trace[i].result[1].TraceLabel # trace[i].node.Label

--------------------------------------------------------------------------
\* The ids a search can be started at or can come across.
SearchIds ==
    DOMAIN Nodes \cup {Edges[k].From : k \in 1..Len(Edges)}
                 \cup {Edges[k].To : k \in 1..Len(Edges)}

\* The ids a visited map marks as on the path.
OnPath(visited) == {id \in DOMAIN visited : visited[id]}

\* The visited maps a search is started with: the empty one of
\* detectDeepChains, and those with one id on the path.
VisitedMaps == {<<>>} \cup {MapSet(<<>>, id, TRUE) : id \in SearchIds}

\* C24: the longest-chain search returns on every graph, with cycles,
\* self-loops and dangling edges; the chain it returns starts at the given
\* node and holds no id twice, and the ids marked as on the path are the
\* same after the search as before it.
C24_SearchRestoresVisited ==
    \A id \in SearchIds : \A visited \in VisitedMaps :
        LET r == findLongestChain(Edges, id, visited)
        IN  /\ OnPath(r.visited) = OnPath(visited)
            /\ id \in OnPath(visited) => r.chain = <<>>
            /\ id \notin OnPath(visited) =>
                  /\ IsSimplePath(r.chain)
                  /\ r.chain[1] = id
                  /\ \A i \in 1..Len(r.chain) : r.chain[i] \notin OnPath(visited)

\* Detect has searched a graph with a cycle, a self-loop and a dangling
\* edge, and reported a chain.
C24_Witness ==
    /\ pc = "done"
    /\ \E k \in 1..Len(Edges) : Edges[k].From = Edges[k].To
    /\ \E k \in 1..Len(Edges) : Edges[k].To \notin DOMAIN Nodes
    /\ \E k \in 1..Len(Edges) : Edges[k].From = "view" /\ Edges[k].To = "a"
    /\ \E i \in 1..Len(issues) : issues[i].Type = IssueDeepDependencyChain

--------------------------------------------------------------------------
(* C25: the pending cause and the pending state of the free-text parser.   *)

\* Line i of the text file visited last became a node of kind `type`.
BecameNode(i, type) ==
    Matches[input.lines[i]] # {} /\ Winner(input.lines[i]) = type

\* The lines before line i that became a node of kind `type`.
EarlierLines(i, type) == {j \in 1..(i - 1) : BecameNode(j, type)}

MostRecent(S) == CHOOSE j \in S : \A k \in S : k <= j

\* The id of the node line j upserted.
NodeIdOfLine(j) ==
    LET k == CHOOSE c \in CallsOfLine(j, "UpsertNode") : TRUE IN trace[k].call.node.ID

\* Line i, which became a node of kind `type`, added an edge with the
\* label `label` from the node of the most recent earlier line of kind
\* `from` iff there is such a line.
EdgeFromPending(i, from, label) ==
    IF EarlierLines(i, from) = {}
    THEN CallsOfLine(i, "AddEdge") = {}
    ELSE \E k \in CallsOfLine(i, "AddEdge") :
             trace[k].call.edge =
                 Edge(NodeIdOfLine(MostRecent(EarlierLines(i, from))),
                      NodeIdOfLine(i), label)

\* C25: in the free-text parser the pending cause and the pending state
\* persist across lines until replaced: a State line adds a `causes` edge
\* from the node of the most recent earlier Cause line iff there is one, a
\* View line adds an `updates` edge from the node of the most recent
\* earlier State line iff there is one, a Cause line adds no edge; every
\* edge of one parse has both endpoints among the nodes it upserted.
C25_PendingPersists ==
    input.name \in TextNames =>
        /\ \A i \in DOMAIN input.lines :
              /\ BecameNode(i, NodeState) => EdgeFromPending(i, NodeCause, "causes")
              /\ BecameNode(i, NodeView) => EdgeFromPending(i, NodeState, "updates")
              /\ BecameNode(i, NodeCause) => CallsOfLine(i, "AddEdge") = {}
        /\ \A i \in DOMAIN input.lines : \A k \in CallsOfLine(i, "AddEdge") :
              /\ \E j \in DOMAIN input.lines : \E u \in CallsOfLine(j, "UpsertNode") :
                     trace[u].call.node.ID = trace[k].call.edge.From
              /\ \E j \in DOMAIN input.lines : \E u \in CallsOfLine(j, "UpsertNode") :
                     trace[u].call.node.ID = trace[k].call.edge.To

\* A file was parsed in which a second cause replaced the first, two State
\* lines after a line without a match and a blank line both took their
\* edge from it, and a View line took its edge from the second of them.
C25_Witness ==
    /\ input.name = "pending.txt"
    /\ \E k \in CallsOfLine(6, "AddEdge") : trace[k].call.edge.From = NodeIdOfLine(3)
    /\ \E k \in CallsOfLine(7, "AddEdge") : trace[k].call.edge.From = NodeIdOfLine(3)
    /\ \E k \in CallsOfLine(8, "AddEdge") : trace[k].call.edge.From = NodeIdOfLine(7)
    /\ NodeIdOfLine(2) # NodeIdOfLine(3)
    /\ CallsOfLine(1, "AddEdge") = {}
    /\ CallsOfLine(9, "AddEdge") = {}

--------------------------------------------------------------------------
(* C28: the ids of the issues of one Detect run.                           *)

\* The ids in the order in which they are given out.
IssueIds ==
    <<"issue-1", "issue-2", "issue-3", "issue-4", "issue-5", "issue-6",
      "issue-7", "issue-8", "issue-9", "issue-10", "issue-11", "issue-12">>

IssueNumber(id) == CHOOSE n \in 1..Len(IssueIds) : IssueIds[n] = id

\* C28: within one Detect run the issue ids are pairwise distinct and are
\* exactly issue-1 .. issue-n for n issues, given out in detection order
\* before the sort: an issue of an earlier detector has a smaller number
\* than an issue of a later one.
C28_SequentialIds ==
    pc = "done" =>
        /\ Len(issues) <= Len(IssueIds)
        /\ \A i \in 1..Len(detected) : detected[i].ID = IssueIds[i]
        /\ {issues[i].ID : i \in 1..Len(issues)} = {IssueIds[n] : n \in 1..Len(issues)}
        /\ \A i, j \in 1..Len(issues) : i # j => issues[i].ID # issues[j].ID
        /\ \A i, j \in 1..Len(issues) :
              DetectorOrder(issues[i].Type) < DetectorOrder(issues[j].Type)
                  => IssueNumber(issues[i].ID) < IssueNumber(issues[j].ID)

\* Detect returned issues of three detectors or more, and the sort moved
\* an issue with a larger number before one with a smaller number.
C28_Witness ==
    /\ pc = "done"
    /\ Cardinality({issues[i].Type : i \in 1..Len(issues)}) >= 3
    /\ \E i, j \in 1..Len(issues) :
           i < j /\ IssueNumber(issues[i].ID) > IssueNumber(issues[j].ID)

--------------------------------------------------------------------------
(* C29: the ends of a reported chain.                                      *)

\* The chain of a deep_dependency_chain issue starts at a Cause node.
C29_StartsAtCause ==
    \A i \in 1..Len(issues) :
        issues[i].Type = IssueDeepDependencyChain =>
            /\ issues[i].AffectedNodes[1] \in DOMAIN Nodes
            /\ Nodes[issues[i].AffectedNodes[1]].Type = NodeCause

\* C29: the chain of a deep_dependency_chain issue is a path from a Cause
\* node to a View node: its first element is the Cause node and its last
\* element is a View node.
C29_CauseToView ==
    /\ C29_StartsAtCause
    /\ \A i \in 1..Len(issues) :
           issues[i].Type = IssueDeepDependencyChain =>
               LET chain == issues[i].AffectedNodes
               IN  /\ chain[Len(chain)] \in DOMAIN Nodes
                   /\ Nodes[chain[Len(chain)]].Type = NodeView

--------------------------------------------------------------------------
(* C30: whole_object_passing and cascading_update.                         *)

\* C30: whenever Detect returns a whole_object_passing issue for a State
\* node it returns a cascading_update issue for the same node in the same
\* run, so that the list holds two issues at least.
C30_WholeObjectImpliesCascade ==
    pc = "done" =>
        \A i \in 1..Len(issues) :
            issues[i].Type = IssueWholeObjectPassing =>
                /\ Nodes[issues[i].AffectedNodes[1]].Type = NodeState
                /\ Len(IssuesAbout(IssueCascadingUpdate, issues[i].AffectedNodes[1])) = 1
                /\ Len(issues) >= 2

\* Detect returned a whole_object_passing issue, for a State that also has
\* an edge to a node that is no View.
C30_Witness ==
    /\ pc = "done"
    /\ \E i \in 1..Len(issues) :
           /\ issues[i].Type = IssueWholeObjectPassing
           /\ \E k \in 1..Len(Edges) :
                  /\ Edges[k].From = issues[i].AffectedNodes[1]
                  /\ (Edges[k].To \notin DOMAIN Nodes \/ Nodes[Edges[k].To].Type # NodeView)
====
